---- MODULE Spec2Model ----
(***************************************************************************)
(* A model of rare-sniper: the scan scheduler and scan cycle of            *)
(* src/index.js, the analyzer and the MagicEden client (unnamed/part_000), *)
(* the cache store (utils/cache.js) and requestError (utils/logger.js).    *)
(*                                                                         *)
(* Spec       the process: start-up, interval triggers, the scan cycle     *)
(*            split at its suspension points (await), SIGINT, restarts.    *)
(* SpecFetch  one call of a MagicEden client function, one request at a    *)
(*            time; FairSpecFetch adds the progress the event loop gives.  *)
(* SpecCache  the exported functions of the cache store, called one at a   *)
(*            time over any files, with a clock.                           *)
(* SpecAnalyzer  countTraits and findRareNFTs over small collections.      *)
(* SpecTimer  the start-up call of main and the setInterval timer against  *)
(*            the clock, with scans that take time.                        *)
(***************************************************************************)
EXTENDS FiniteSets, Integers, Sequences, TLC

VARIABLES
    \* ---- the process (src/index.js) ----
    phase,              \* "stopped" | "running": is a node process alive
    seenRareNFTs,       \* index.js:10, the in-memory Set of mint addresses
    isScanRunning,      \* index.js:12
    currentCollection,  \* index.js:14
    scans,              \* the processCollection invocations in flight, oldest first
    config,             \* the settings of config/default.json, read only
    \* ---- the cache directory (utils/cache.js) and the clock ----
    seenFile,           \* cache/<symbol>_seen.json
    cacheFile,          \* cache/<symbol>.json
    now,                \* wall clock, in milliseconds
    \* ---- history of the process, for the properties ----
    triggers,           \* calls of main() so far (start-up call and interval ticks)
    dropped,            \* triggers this process skipped because a scan was running
    notifiedRun,        \* per mint: times it was in a sink item list, this process
    notifiedAll,        \* per mint: the same over all processes
    sinkFailedFor,      \* the mints of the sink calls that returned false, all processes
    ioFailed,           \* some read or write of the seen-set file has failed
    exitWrite,          \* what the SIGINT handler's write did: "none" | "ok" | "failed"
    lastOutcome,        \* how the last scan of this process ended: "none" | "abort" |
                        \* "error" | "noRare" | "nothingNew" | "notified" |
                        \* "sinkFailed" (the sink returned false)
    \* ---- one call of a client function (unnamed/part_000:161-310) ----
    fetch,              \* the locals of the call and the history of its requests
    \* ---- what the last step called, for the properties ----
    cacheCall,          \* the cache-store call of the last step and what it returned
    dedup,              \* steps 7-9 of the cycle (index.js:98-151), if the last step ran them
    analysis,           \* one classification by the analyzer (unnamed/part_000:85-140)
    \* ---- the interval timer (index.js:239-242), for the timing property ----
    timer               \* when the setInterval callback is due next, and when the
                        \* last scan completed

varsProc  == <<phase, seenRareNFTs, isScanRunning, currentCollection, scans, config>>
varsDisk  == <<seenFile, cacheFile, now>>
varsHist  == <<triggers, dropped, notifiedRun, notifiedAll, sinkFailedFor, ioFailed,
               exitWrite, lastOutcome>>
varsLast  == <<cacheCall, dedup>>
vars      == <<varsProc, varsDisk, varsHist, fetch, varsLast, analysis, timer>>

(***************************************************************************)
(* Bounds of the model.                                                    *)
(***************************************************************************)
MaxTriggers == 2    \* calls of main() over all runs of the process
MaxCount    == 2    \* the notification counters saturate here
MaxPages    == 2    \* full pages the remote serves to one paginated fetch

(***************************************************************************)
(* Values.                                                                 *)
(***************************************************************************)
Symbol    == "mkrs"
Mints     == {"m1", "m2"}
Null      == [kind |-> "null"]
Undefined == "undefined"
NoCollection == ""      \* currentCollection = null (index.js:14)

Min(a, b) == IF a < b THEN a ELSE b

RemoveAt(s, i) == [k \in 1..(Len(s) - 1) |-> IF k < i THEN s[k] ELSE s[k + 1]]

\* The attributes the remote holds for each token of the collection.
AttributesOf(m) ==
    IF m = "m1" THEN <<[trait_type |-> "Hat", value |-> "Crown"]>>
                ELSE <<[trait_type |-> "Hat", value |-> "Cap"]>>

\* GET /tokens/{mint}: a well-formed record, one without attributes and one
\* whose attributes are no array.
TokenRecord(m)   == [kind |-> "nft", mintAddress |-> m, price |-> Undefined,
                     seller |-> Undefined,
                     attributes |-> [kind |-> "array", items |-> AttributesOf(m)]]
NoAttrRecord(m)  == [kind |-> "nft", mintAddress |-> m, price |-> Undefined,
                     seller |-> Undefined,
                     attributes |-> [kind |-> "missing", items |-> <<>>]]
BadAttrRecord(m) == [kind |-> "nft", mintAddress |-> m, price |-> Undefined,
                     seller |-> Undefined,
                     attributes |-> [kind |-> "notArray", items |-> <<>>]]

\* An entry of GET /collections/{symbol}/listings.
PriceOf(m)  == IF m = "m1" THEN "2500000000" ELSE "1000000000"
Listing(m)  == [tokenMint |-> m, price |-> PriceOf(m), seller |-> "s_" \o m]

CollectionInfo == [kind |-> "info", name |-> "MKRS"]

(***************************************************************************)
(* The analyzer (unnamed/part_000:1-146).                                  *)
(***************************************************************************)
EmptyMap == [t \in {} |-> Null]
Throw    == [kind |-> "throw"]

\* traits, traitCounts, traitCounts[type] and rarityDetails are plain objects
\* ({}), which the code uses as dictionaries.  A map of the model holds the
\* own properties of such an object; behind them stands Object.prototype,
\* whose members a lookup obj[key] finds when obj has no own property key.
ObjectPrototype ==
    {"constructor", "__proto__", "hasOwnProperty", "isPrototypeOf",
     "propertyIsEnumerable", "toLocaleString", "toString", "valueOf",
     "__defineGetter__", "__defineSetter__", "__lookupGetter__", "__lookupSetter__"}

\* The member of Object.prototype of that name, written as the string it is
\* converted to where it is used as a key or added to: a function (the
\* constructor is the function Object), and for "__proto__" the object
\* Object.prototype itself.  A trait value that is this very text is not
\* told apart from the member.
InheritedText(name) ==
    IF name = "__proto__" THEN "[object Object]"
    ELSE "function " \o (IF name = "constructor" THEN "Object" ELSE name)
                    \o "() { [native code] }"

\* obj[key] = value for a string value: an own property is set, but for the
\* key "__proto__", whose setter on Object.prototype ignores a string.
Settable(key) == key # "__proto__"

\* The values a count or a percentage may be: a number (a percentage in
\* hundredths of a percent), NaN, a string, or undefined.
Number(n)      == [kind |-> "number", n |-> n]
NaN            == [kind |-> "NaN"]
StringValue(s) == [kind |-> "string", s |-> s]
UndefinedValue == [kind |-> "undefined"]

\* attributes.forEach(attr => traits[attr.trait_type] = attr.value): the last
\* attribute of a trait type wins; an attribute whose trait type is
\* "__proto__" is not stored.
FlattenAttributes(items) ==
    LET types   == {t \in {items[i].trait_type : i \in DOMAIN items} : Settable(t)}
        last(t) == CHOOSE i \in DOMAIN items :
                      /\ items[i].trait_type = t
                      /\ \A j \in DOMAIN items : items[j].trait_type = t => j <= i
    IN  [t \in types |-> items[last(t)].value]

\* null for a missing record or missing attributes; a TypeError (Throw) when
\* attributes has no forEach; the flattened item otherwise.
normalizeNFT(nft) ==
    IF nft.kind = "null" THEN Null
    ELSE IF nft.attributes.kind = "missing" THEN Null
    ELSE IF nft.attributes.kind = "notArray" THEN Throw
    ELSE [kind        |-> "item",
          mintAddress |-> nft.mintAddress,
          price       |-> nft.price,
          seller      |-> nft.seller,
          rarity      |-> EmptyMap,
          traits      |-> FlattenAttributes(nft.attributes.items)]

\* nft.traits[type] || 'None' (part_000:59, 97): the item's own value unless
\* it is falsy; for a type the item lacks, the member of Object.prototype of
\* that name when there is one (it is truthy); 'None' otherwise.
Falsy(v) == v = ""
TraitValue(nft, type) ==
    IF type \in DOMAIN nft.traits
        THEN IF Falsy(nft.traits[type]) THEN "None" ELSE nft.traits[type]
    ELSE IF type \in ObjectPrototype THEN InheritedText(type)
    ELSE "None"

\* The arithmetic of (count / total) * 100 is that of IEEE 754 doubles: each
\* of the two operations rounds its exact result to MantissaBits significant
\* bits, to nearest and on a tie to the even mantissa.  Natural numbers
\* wider than the integers at hand are sequences of bits, the most
\* significant first.
MantissaBits == 53

Front(bits) == SubSeq(bits, 1, Len(bits) - 1)
Last(bits) == bits[Len(bits)]
Zeros(n) == [k \in 1..n |-> 0]

RECURSIVE BitsOf(_)
BitsOf(n) == IF n = 0 THEN <<>> ELSE Append(BitsOf(n \div 2), n % 2)

\* bits + 1
RECURSIVE Inc(_)
Inc(bits) ==
    IF bits = <<>> THEN <<1>>
    ELSE IF Last(bits) = 0 THEN Append(Front(bits), 1)
    ELSE Append(Inc(Front(bits)), 0)

\* bits * k + carry
RECURSIVE MulSmall(_, _, _)
MulSmall(bits, k, carry) ==
    IF bits = <<>> THEN BitsOf(carry)
    ELSE Append(MulSmall(Front(bits), k, (Last(bits) * k + carry) \div 2),
                (Last(bits) * k + carry) % 2)

\* a >= b, for sequences without leading zeros
GreaterEq(a, b) ==
    \/ Len(a) > Len(b)
    \/ /\ Len(a) = Len(b)
       /\ \/ a = b
          \/ LET i == CHOOSE j \in DOMAIN a :
                        a[j] # b[j] /\ \A h \in 1..(j - 1) : a[h] = b[h]
             IN  a[i] > b[i]

\* The binary expansion of r / total, 0 < r < total: the remainder at the
\* first bit that is 1, the number of zero bits before it, and from a
\* remainder the next n bits with the remainder they leave.
RECURSIVE Normalized(_, _)
Normalized(r, total) == IF 2 * r >= total THEN r ELSE Normalized(2 * r, total)
RECURSIVE LeadingZeros(_, _)
LeadingZeros(r, total) == IF 2 * r >= total THEN 0 ELSE 1 + LeadingZeros(2 * r, total)
RECURSIVE Expand(_, _, _, _)
Expand(r, total, n, acc) ==
    IF n = 0 THEN [bits |-> acc, rem |-> r]
    ELSE IF 2 * r >= total THEN Expand(2 * r - total, total, n - 1, Append(acc, 1))
    ELSE Expand(2 * r, total, n - 1, Append(acc, 0))

\* count / total as a double, 0 < count < total: its mantissa, to be
\* divided by 2^(LeadingZeros(count, total) + MantissaBits).
Quotient(count, total) ==
    LET e  == Expand(Normalized(count, total), total, MantissaBits, <<>>)
        up == \/ 2 * e.rem > total
              \/ 2 * e.rem = total /\ Last(e.bits) = 1
    IN  IF up THEN Inc(e.bits) ELSE e.bits

\* A natural number of more than MantissaBits bits rounded as a double: its
\* mantissa and the number of bits dropped.
RoundDouble(bits) ==
    LET d    == Len(bits) - MantissaBits
        top  == SubSeq(bits, 1, MantissaBits)
        rest == SubSeq(bits, MantissaBits + 1, Len(bits))
        up   == /\ rest[1] = 1
                /\ \/ \E k \in 2..d : rest[k] = 1
                   \/ Last(top) = 1
    IN  IF d <= 0 THEN [mantissa |-> bits, dropped |-> 0]
        ELSE [mantissa |-> IF up THEN Inc(top) ELSE top, dropped |-> d]

\* Whether the double (count / total) * 100 is at least n / 200, for
\* 0 < count < total.
ProductAtLeast(count, total, n) ==
    LET p == RoundDouble(MulSmall(Quotient(count, total), 100, 0))
    IN  GreaterEq(MulSmall(p.mantissa, 200, 0) \o Zeros(p.dropped),
                  BitsOf(n) \o Zeros(LeadingZeros(count, total) + MantissaBits))

\* parseFloat(((count / total) * 100).toFixed(2)), in hundredths of a percent
\* (part_000:68-71).  toFixed(2) takes the hundredth nearest to the double
\* it is given, the larger of two that are equally near.  Where the exact
\* quotient 10000 * count / total lies half-way between two hundredths the
\* rounding of the division and of the multiplication decides on which side
\* the double falls; elsewhere the double is nearer to the hundredth the
\* exact quotient is nearest to than its rounding error can reach.
Percentage(count, total) ==
    LET half == (2 * 10000 * count) \div total     \* the quotient in two-hundredths
    IN  IF (2 * 10000 * count) % total = 0 /\ half % 2 = 1
            THEN IF ProductAtLeast(count, total, half) THEN (half + 1) \div 2
                                                       ELSE (half - 1) \div 2
            ELSE (2 * 10000 * count + total) \div (2 * total)

RECURSIVE Ones(_)
Ones(m) == IF m = 0 THEN "" ELSE "1" \o Ones(m - 1)

\* traitCounts[type][value] after m items were counted under value
\* (part_000:60) and the percentages were taken (part_000:66-75).  The first
\* (traitCounts[type][value] || 0) + 1 finds no own property: for an ordinary
\* value it is 0 + 1, for the name of a member of Object.prototype it finds
\* the member, which is truthy, and + 1 appends "1" to its text; each later
\* one adds 1 to the number or appends "1" to the string.  A string divided
\* by totalNFTs is NaN, and parseFloat(NaN.toFixed(2)) is NaN.
TraitStat(value, m, totalNFTs) ==
    IF value \in ObjectPrototype
        THEN [count      |-> StringValue(InheritedText(value) \o Ones(m)),
              percentage |-> NaN]
        ELSE [count      |-> Number(m),
              percentage |-> Number(Percentage(m, totalNFTs))]

\* countTraits (part_000:38-77): the trait types seen on any item (their own
\* keys), and for each the count and percentage of every value the items
\* are counted under; the assignment to traitCounts[type]["__proto__"] sets
\* no property, so that value gets no stat.
countTraits(nfts) ==
    LET traitTypes   == UNION {DOMAIN nfts[i].traits : i \in DOMAIN nfts}
        totalNFTs    == Len(nfts)
        values(type) == {v \in {TraitValue(nfts[i], type) : i \in DOMAIN nfts} :
                            Settable(v)}
        count(type, value) ==
            Cardinality({i \in DOMAIN nfts : TraitValue(nfts[i], type) = value})
    IN  [traitCounts |->
            [type \in traitTypes |->
                [value \in values(type) |->
                    TraitStat(value, count(type, value), totalNFTs)]],
         traitTypes  |-> traitTypes]

\* The rarity details findRareNFTs records for one trait type of one item
\* (part_000:100-126); called only when traitStats is truthy.  A count that
\* is no number is not === 1, and a percentage that is no number is not <=
\* the threshold.
RarityDetail(value, traitStats) ==
    IF config.oneOfOneThreshold /\ traitStats.count = Number(1)
        THEN [value |-> value, count |-> Number(1),
              percentage |-> traitStats.percentage,
              rare |-> TRUE, reason |-> "One of one trait"]
    ELSE IF /\ traitStats.percentage.kind = "number"
            /\ traitStats.percentage.n <= config.percentThreshold * 100
        THEN [value |-> value, count |-> traitStats.count,
              percentage |-> traitStats.percentage,
              rare |-> TRUE, reason |-> "Below threshold"]
    ELSE [value |-> value, count |-> traitStats.count,
          percentage |-> traitStats.percentage,
          rare |-> FALSE, reason |-> Undefined]

\* traitCounts[type][value] (part_000:98) is truthy: the value has a stat of
\* its own, or it names a member of Object.prototype, which the lookup then
\* finds; the member has no count and no percentage.
HasTraitStats(stats, value) == value \in DOMAIN stats \/ value \in ObjectPrototype
TraitStatsOf(stats, value) ==
    IF value \in DOMAIN stats THEN stats[value]
    ELSE [count |-> UndefinedValue, percentage |-> UndefinedValue]

\* Details only for the trait types the item has no details for yet.
RarityDetailsSkipsAnnotated(nft, traitAnalysis) ==
    LET known == {type \in traitAnalysis.traitTypes \ DOMAIN nft.rarity :
                    HasTraitStats(traitAnalysis.traitCounts[type], TraitValue(nft, type))}
    IN  [type \in known |->
            RarityDetail(TraitValue(nft, type),
                         TraitStatsOf(traitAnalysis.traitCounts[type],
                                      TraitValue(nft, type)))]

\* The rarityDetails of one item (part_000:92-129): an entry for every trait
\* type of the counts for which traitStats is truthy.
RarityDetails(nft, traitAnalysis) ==
    LET known == {type \in traitAnalysis.traitTypes :
                    HasTraitStats(traitAnalysis.traitCounts[type], TraitValue(nft, type))}
    IN  [type \in known |->
            RarityDetail(TraitValue(nft, type),
                         TraitStatsOf(traitAnalysis.traitCounts[type],
                                      TraitValue(nft, type)))]

IsRare(details) == \E type \in DOMAIN details : details[type].rare

findRareNFTs(nfts, traitAnalysis) ==
    LET annotated == [i \in DOMAIN nfts |->
                        [nfts[i] EXCEPT !.rarity = RarityDetails(nfts[i], traitAnalysis)]]
    IN  SelectSeq(annotated, LAMBDA nft : IsRare(nft.rarity))

\* The array handed to findRareNFTs after the call: nft.rarity is assigned on
\* the items found rare (part_000:132-135), the others are left as they were.
Classified(nfts, traitAnalysis) ==
    [i \in DOMAIN nfts |->
        IF IsRare(RarityDetails(nfts[i], traitAnalysis))
            THEN [nfts[i] EXCEPT !.rarity = RarityDetails(nfts[i], traitAnalysis)]
            ELSE nfts[i]]

(***************************************************************************)
(* The cache store (src/utils/cache.js).  A file is "missing", "ok" (it    *)
(* parses) or "malformed".  Every operation takes the outcome of its file  *)
(* system calls: a read is "ok" or "fail"; a write is "ok", or fails       *)
(* before the file is opened ("failUntouched") or after writeFileSync has  *)
(* truncated it ("failTruncated").                                         *)
(***************************************************************************)
ReadOutcomes  == {"ok", "fail"}
WriteOutcomes == {"ok", "failUntouched", "failTruncated"}

NoFile == [state |-> "missing", content |-> {}]
NoCacheFile == [state |-> "missing", data |-> <<>>, mtime |-> 0]

HourMs == 3600000

\* An expiry test that already fails at the expiry time itself.
cacheExistsStrict(io) ==
    IF cacheFile.state = "missing" THEN FALSE
    ELSE IF io = "fail" THEN FALSE
    ELSE IF now - cacheFile.mtime >= config.cacheExpireHours * HourMs THEN FALSE
    ELSE TRUE

cacheExists(io) ==
    IF cacheFile.state = "missing" THEN FALSE
    ELSE IF io = "fail" THEN FALSE
    ELSE IF now - cacheFile.mtime > config.cacheExpireHours * HourMs THEN FALSE
    ELSE TRUE

\* [file |-> the snapshot file afterwards, ret |-> the returned boolean]
saveToCache(data, io) ==
    IF ~config.cacheFullCollectionData THEN [file |-> cacheFile, ret |-> FALSE]
    ELSE IF io = "ok"
        THEN [file |-> [state |-> "ok", data |-> data, mtime |-> now], ret |-> TRUE]
    ELSE IF io = "failTruncated"
        THEN [file |-> [state |-> "malformed", data |-> <<>>, mtime |-> now],
              ret |-> FALSE]
    ELSE [file |-> cacheFile, ret |-> FALSE]

\* A load that does not look at cacheFullCollectionData.
loadFromCacheIgnoresFlag(io) ==
    IF ~cacheExists(io) THEN Null
    ELSE IF cacheFile.state = "malformed" \/ io = "fail" THEN Null
    ELSE [kind |-> "array", items |-> cacheFile.data]

\* Null, or [kind |-> "array", items |-> the cached records]
loadFromCache(io) ==
    IF ~config.cacheFullCollectionData THEN Null
    ELSE IF ~cacheExists(io) THEN Null
    ELSE IF cacheFile.state = "malformed" \/ io = "fail" THEN Null
    ELSE [kind |-> "array", items |-> cacheFile.data]

\* A save that reports success without having written.
saveSeenNoWrite(seen, io) == [file |-> seenFile, ret |-> TRUE]

\* A load that hands out the file's set although reading it failed.
loadSeenUnchecked(io) ==
    IF seenFile.state = "missing" THEN {}
    ELSE IF seenFile.state = "malformed" THEN {}
    ELSE seenFile.content

\* [file |-> the seen-set file afterwards, ret |-> the returned boolean]
saveSeenRareNFTs(seen, io) ==
    IF io = "ok"
        THEN [file |-> [state |-> "ok", content |-> seen], ret |-> TRUE]
    ELSE IF io = "failTruncated"
        THEN [file |-> [state |-> "malformed", content |-> {}], ret |-> FALSE]
    ELSE [file |-> seenFile, ret |-> FALSE]

loadSeenRareNFTs(io) ==
    IF seenFile.state = "missing" THEN {}
    ELSE IF seenFile.state = "malformed" \/ io = "fail" THEN {}
    ELSE seenFile.content

\* Did this load lose the file's content to a failure.
LoadFailed(io) == seenFile.state = "malformed" \/ (seenFile.state = "ok" /\ io = "fail")

\* clearCache makes two file system calls (cache.js:162-163): existsSync,
\* which answers false when it fails and never throws, and unlinkSync, which
\* throws when it fails.
ClearOutcomes == {"ok", "failExists", "failUnlink"}

\* An unlink without the test for the file's existence.
clearCacheUnlinks(io) ==
    IF cacheFile.state = "missing" \/ io # "ok"
        THEN [file |-> cacheFile, ret |-> FALSE]
    ELSE [file |-> NoCacheFile, ret |-> TRUE]

\* [file |-> the snapshot file afterwards, ret |-> the returned boolean]
clearCache(io) ==
    IF cacheFile.state = "missing" \/ io = "failExists"
        THEN [file |-> cacheFile, ret |-> TRUE]
    ELSE IF io = "failUnlink" THEN [file |-> cacheFile, ret |-> FALSE]
    ELSE [file |-> NoCacheFile, ret |-> TRUE]

(***************************************************************************)
(* The scan cycle, processCollection (src/index.js:20-160), between its    *)
(* suspension points.  What a remote call returns is chosen by the action  *)
(* that resumes the cycle.                                                 *)
(***************************************************************************)
NoAnalysis == [traitCounts |-> EmptyMap, traitTypes |-> {}]

NewScan == [pc |-> "info", allNFTs |-> <<>>, traitAnalysis |-> NoAnalysis,
            listedNFTs |-> <<>>, idx |-> 0, normalizedListedNFTs |-> <<>>,
            newRareNFTs |-> <<>>]

\* What getAllCollectionNFTs can hand to the cycle: nothing, the collection,
\* a part of it, and a list holding a record whose attributes are no array.
EnumResults ==
    { <<>>,
      <<TokenRecord("m1"), TokenRecord("m2")>>,
      <<TokenRecord("m1")>>,
      <<TokenRecord("m1"), BadAttrRecord("m2")>> }

\* What getCollectionListings can hand to the cycle: the listings in any
\* order, a mint possibly listed more than once.
ListingResults ==
    { <<>>,
      <<Listing("m1")>>,
      <<Listing("m2")>>,
      <<Listing("m1"), Listing("m2")>>,
      <<Listing("m2"), Listing("m1")>>,
      <<Listing("m1"), Listing("m1")>> }

\* What getNFTMetadata can hand to the cycle for one mint.
MetaResults(m) == {TokenRecord(m), NoAttrRecord(m), BadAttrRecord(m), Null}

\* A cycle that does not consult the seen set, and one that replaces it.
SeenHasNever(seen, mint) == FALSE
SeenAddReplaces(seen, mint) == {mint}

\* seenRareNFTs.has(mint) and seenRareNFTs.add(mint) (index.js:107,116)
SeenHas(seen, mint) == mint \in seen
SeenAdd(seen, mint) == seen \cup {mint}

\* A loop that takes every rare item for new.
PartitionRareAll(rare, seen, newRare) ==
    [seen |-> seen \cup {rare[i].mintAddress : i \in DOMAIN rare}, newRareNFTs |-> rare]

\* A loop that assigns the new item instead of pushing it: the seen set takes
\* every new mint, the list for the sink keeps the last one only.
PartitionRareKeepsLast(rare, seen, newRare) ==
    LET new == SelectSeq(rare, LAMBDA nft : nft.mintAddress \notin seen)
    IN  [seen        |-> seen \cup {new[i].mintAddress : i \in DOMAIN new},
         newRareNFTs |-> IF new = <<>> THEN <<>> ELSE <<new[Len(new)]>>]

\* rareListedNFTs.forEach (index.js:105-138): the new rare items in order and
\* the seen set after the loop.
RECURSIVE PartitionRare(_, _, _)
PartitionRare(rare, seen, newRare) ==
    IF rare = <<>> THEN [seen |-> seen, newRareNFTs |-> newRare]
    ELSE IF SeenHas(seen, Head(rare).mintAddress)
        THEN PartitionRare(Tail(rare), seen, newRare)
    ELSE PartitionRare(Tail(rare), SeenAdd(seen, Head(rare).mintAddress),
                       Append(newRare, Head(rare)))

\* index.js:59-61: normalize the records and drop the nulls.
NormalizeAll(nfts) ==
    SelectSeq([i \in DOMAIN nfts |-> normalizeNFT(nfts[i])], LAMBDA n : n # Null)
Throws(nfts) == \E i \in DOMAIN nfts : normalizeNFT(nfts[i]) = Throw

\* The mints of a list of items.
MintsOf(items) == {items[i].mintAddress : i \in DOMAIN items}

\* The item list of a sink call counted into a per-mint counter.
Occurrences(items, m) == Cardinality({i \in DOMAIN items : items[i].mintAddress = m})
Counted(counter, items) ==
    [m \in Mints |-> Min(counter[m] + Occurrences(items, m), MaxCount)]

(***************************************************************************)
(* The scheduler (src/index.js:166-243).                                   *)
(***************************************************************************)
\* main without the check of the flag.
mainNoGuard(flag, active) ==
    [isScanRunning |-> TRUE, scans |-> Append(active, NewScan), skipped |-> FALSE]

\* main (index.js:166-190) up to its await, called with the flag and the
\* invocations in flight: a trigger during a scan is skipped.
main(flag, active) ==
    IF flag
        THEN [isScanRunning |-> flag, scans |-> active, skipped |-> TRUE]
        ELSE [isScanRunning |-> TRUE, scans |-> Append(active, NewScan),
              skipped |-> FALSE]

\* The flag cleared on the normal path only, not in a finally block.
mainFinallyOnSuccess(flag, outcome) == IF outcome = "error" THEN flag ELSE FALSE

\* The flag after main's finally block (index.js:187-189).
mainFinally(flag, outcome) == FALSE

Configs ==
    { [oneOfOneThreshold |-> TRUE, percentThreshold |-> 1,
       cacheFullCollectionData |-> c, cacheExpireHours |-> 1,
       maxNFTsToFetch |-> 2, discordEnabled |-> TRUE,
       scanIntervalMinutes |-> 10] : c \in BOOLEAN }

\* A snapshot of the collection that an earlier run, with caching on, has
\* left in the cache directory.
LeftoverSnapshot ==
    [state |-> "ok", data |-> <<TokenRecord("m1"), TokenRecord("m2")>>, mtime |-> 0]

\* A snapshot file that parses to an empty array; the cycle tests for it
\* (index.js:39) although saveToCache is never handed one.
EmptySnapshot == [state |-> "ok", data |-> <<>>, mtime |-> 0]

InitDisk ==
    /\ seenFile = NoFile
    /\ cacheFile \in {NoCacheFile, LeftoverSnapshot}
                      \cup (IF config.cacheFullCollectionData THEN {EmptySnapshot}
                                                              ELSE {})
    /\ now = 0

\* The module's variables before setupIntervalRuns has run; the memory of a
\* process that is gone is shown the same way.
InitProcMemory ==
    /\ seenRareNFTs = {}
    /\ isScanRunning = FALSE
    /\ currentCollection = NoCollection
    /\ scans = <<>>

InitProc ==
    /\ phase = "stopped"
    /\ InitProcMemory

InitHist ==
    /\ triggers = 0
    /\ dropped = 0
    /\ notifiedRun = [m \in Mints |-> 0]
    /\ notifiedAll = [m \in Mints |-> 0]
    /\ sinkFailedFor = {}
    /\ ioFailed = FALSE
    /\ exitWrite = "none"
    /\ lastOutcome = "none"

NoFetch == [pc |-> "idle", fn |-> "none"]

\* The record of a cache-store call: the function, the outcome of its file
\* system calls, the boolean it returned (cacheExists, saveToCache,
\* saveSeenRareNFTs, clearCache) and the value it returned (loadFromCache: null
\* or the array; loadSeenRareNFTs: the Set).
NoCacheCall == [op |-> "none", io |-> "none", ok |-> FALSE, value |-> Null]
SetOf(members) == [kind |-> "set", members |-> members]
CacheCall(op, io, ok, value) == [op |-> op, io |-> io, ok |-> ok, value |-> value]

\* The record of steps 7 to 9 of a cycle: the rare listed items, the seen set
\* before the forEach, whether the sink was called and with which items.
NoDedup == [reached |-> FALSE, rare |-> <<>>, seenBefore |-> {}, sink |-> FALSE,
            items |-> <<>>]

NoAnalyzerCall == [called |-> FALSE, times |-> 0]

\* No time: no interval timer is set, no scan has completed.
NoTime == 0 - 1
NoTimer == [due |-> NoTime, completed |-> NoTime]

Init ==
    /\ InitProc
    /\ config \in Configs
    /\ InitDisk
    /\ InitHist
    /\ fetch = NoFetch
    /\ cacheCall = NoCacheCall
    /\ dedup = NoDedup
    /\ analysis = NoAnalyzerCall
    /\ timer = NoTimer

\* setupIntervalRuns (index.js:195-243) in a fresh process: the module's
\* variables are initialised, the seen set is loaded, the SIGINT handler is
\* installed and main is called once.
Start(io) ==
    /\ phase = "stopped"
    /\ triggers < MaxTriggers
    /\ LET m == main(FALSE, <<>>)
       IN  /\ isScanRunning' = m.isScanRunning
           /\ scans' = m.scans
           /\ dropped' = IF m.skipped THEN 1 ELSE 0
    /\ phase' = "running"
    /\ seenRareNFTs' = loadSeenRareNFTs(io)
    /\ ioFailed' = (ioFailed \/ LoadFailed(io))
    /\ currentCollection' = Symbol
    /\ triggers' = triggers + 1
    /\ notifiedRun' = [m \in Mints |-> 0]
    /\ exitWrite' = "none"
    /\ lastOutcome' = "none"
    /\ cacheCall' = CacheCall("loadSeenRareNFTs", io, TRUE, SetOf(loadSeenRareNFTs(io)))
    /\ dedup' = NoDedup
    /\ UNCHANGED <<config, varsDisk, notifiedAll, sinkFailedFor, fetch, analysis, timer>>

\* The setInterval callback (index.js:239-242).
IntervalTick ==
    /\ phase = "running"
    /\ triggers < MaxTriggers
    /\ LET m == main(isScanRunning, scans)
       IN  /\ isScanRunning' = m.isScanRunning
           /\ scans' = m.scans
           /\ dropped' = IF m.skipped THEN dropped + 1 ELSE dropped
    /\ currentCollection' = Symbol
    /\ triggers' = triggers + 1
    /\ cacheCall' = NoCacheCall
    /\ dedup' = NoDedup
    /\ UNCHANGED <<phase, seenRareNFTs, config, varsDisk, notifiedRun, notifiedAll,
                   sinkFailedFor, ioFailed, exitWrite, lastOutcome, fetch, analysis, timer>>

\* The SIGINT handler (index.js:227-233).  seenRareNFTs is a Set by then, so
\* the test of the handler comes down to currentCollection.
Sigint(io) ==
    /\ phase = "running"
    /\ IF currentCollection # NoCollection
          THEN LET w == saveSeenRareNFTs(seenRareNFTs, io)
               IN  /\ seenFile' = w.file
                   /\ exitWrite' = IF w.ret THEN "ok" ELSE "failed"
                   /\ ioFailed' = (ioFailed \/ ~w.ret)
                   /\ cacheCall' = CacheCall("saveSeenRareNFTs", io, w.ret, Null)
          ELSE /\ cacheCall' = NoCacheCall
               /\ UNCHANGED <<seenFile, exitWrite, ioFailed>>
    /\ phase' = "stopped"
    /\ seenRareNFTs' = {}
    /\ isScanRunning' = FALSE
    /\ currentCollection' = NoCollection
    /\ scans' = <<>>
    /\ notifiedRun' = [m \in Mints |-> 0]
    /\ lastOutcome' = "none"
    /\ dropped' = 0
    /\ dedup' = NoDedup
    /\ UNCHANGED <<config, cacheFile, now, triggers, notifiedAll, sinkFailedFor, fetch,
                   analysis, timer>>

\* Time passes between two scans, long enough for the snapshot to expire.
\* The clock is read only by cacheExists, so it advances only while there is
\* a snapshot that has not expired.
ClockSteps == {config.cacheExpireHours * HourMs + 1}

Tick(d) ==
    /\ phase = "running"
    /\ scans = <<>>
    /\ cacheFile.state # "missing"
    /\ now - cacheFile.mtime <= config.cacheExpireHours * HourMs
    /\ now' = now + d
    /\ cacheCall' = NoCacheCall
    /\ dedup' = NoDedup
    /\ UNCHANGED <<varsProc, seenFile, cacheFile, varsHist, fetch, analysis, timer>>

(***************************************************************************)
(* Steps of a scan cycle.  i is the position of the invocation in scans.   *)
(***************************************************************************)
\* processCollection returns or its catch block has run; main's finally
\* follows in the same turn of the event loop.  Once the interval timer is
\* set, the time of the return is kept for the timing property.
Finish(i, outcome) ==
    /\ scans' = RemoveAt(scans, i)
    /\ isScanRunning' = mainFinally(isScanRunning, outcome)
    /\ lastOutcome' = outcome
    /\ timer' = IF timer.due = NoTime THEN timer ELSE [timer EXCEPT !.completed = now]

Continue(i, rec) ==
    /\ scans' = [scans EXCEPT ![i] = rec]
    /\ UNCHANGED <<isScanRunning, lastOutcome, timer>>

\* A cycle without the test of index.js:53: an empty collection goes on to
\* the listings.
AnalyzeKeepsEmpty(i, allNFTs) ==
    IF Throws(allNFTs) THEN Finish(i, "error")
    ELSE Continue(i, [scans[i] EXCEPT !.pc = "listings", !.allNFTs = allNFTs,
                         !.traitAnalysis = countTraits(NormalizeAll(allNFTs))])

\* index.js:53-71: with the collection's records at hand, up to the call of
\* getCollectionListings.
Analyze(i, allNFTs) ==
    IF Len(allNFTs) = 0 THEN Finish(i, "abort")
    ELSE IF Throws(allNFTs) THEN Finish(i, "error")
    ELSE Continue(i, [scans[i] EXCEPT !.pc = "listings", !.allNFTs = allNFTs,
                         !.traitAnalysis = countTraits(NormalizeAll(allNFTs))])

\* getCollectionInfo returns (index.js:26-45).
InfoReturns(i, info, io) ==
    /\ phase = "running"
    /\ i \in DOMAIN scans
    /\ scans[i].pc = "info"
    /\ IF info = Null
          THEN /\ Finish(i, "abort")
               /\ cacheCall' = NoCacheCall
          ELSE LET cachedNFTs == loadFromCache(io)
               IN  /\ IF cachedNFTs # Null /\ Len(cachedNFTs.items) > 0
                         THEN Analyze(i, cachedNFTs.items)
                         ELSE Continue(i, [scans[i] EXCEPT !.pc = "enumerate"])
                   /\ cacheCall' = CacheCall("loadFromCache", io, FALSE, cachedNFTs)
    /\ dedup' = NoDedup
    /\ UNCHANGED <<phase, seenRareNFTs, currentCollection, config, varsDisk, triggers,
                   dropped, notifiedRun, notifiedAll, sinkFailedFor, ioFailed,
                   exitWrite, fetch, analysis>>

\* A cycle that writes the snapshot whatever the enumeration returned.
EnumerateReturnsSavesEmpty(i, allNFTs, io) ==
    /\ phase = "running"
    /\ i \in DOMAIN scans
    /\ scans[i].pc = "enumerate"
    /\ cacheFile' = saveToCache(allNFTs, io).file
    /\ cacheCall' = CacheCall("saveToCache", io, saveToCache(allNFTs, io).ret, Null)
    /\ dedup' = NoDedup
    /\ Analyze(i, allNFTs)
    /\ UNCHANGED <<phase, seenRareNFTs, currentCollection, config, seenFile, now,
                   triggers, dropped, notifiedRun, notifiedAll, sinkFailedFor, ioFailed,
                   exitWrite, fetch, analysis>>

\* getAllCollectionNFTs returns (index.js:45-71).
EnumerateReturns(i, allNFTs, io) ==
    /\ phase = "running"
    /\ i \in DOMAIN scans
    /\ scans[i].pc = "enumerate"
    /\ cacheFile' = IF Len(allNFTs) > 0 THEN saveToCache(allNFTs, io).file
                                       ELSE cacheFile
    /\ cacheCall' = IF Len(allNFTs) > 0
                       THEN CacheCall("saveToCache", io, saveToCache(allNFTs, io).ret, Null)
                       ELSE NoCacheCall
    /\ dedup' = NoDedup
    /\ Analyze(i, allNFTs)
    /\ UNCHANGED <<phase, seenRareNFTs, currentCollection, config, seenFile, now,
                   triggers, dropped, notifiedRun, notifiedAll, sinkFailedFor, ioFailed,
                   exitWrite, fetch, analysis>>

\* getCollectionListings returns (index.js:71-83).
ListingsReturn(i, listedNFTs) ==
    /\ phase = "running"
    /\ i \in DOMAIN scans
    /\ scans[i].pc = "listings"
    /\ IF Len(listedNFTs) = 0 THEN Finish(i, "abort")
       ELSE Continue(i, [scans[i] EXCEPT !.pc = "meta", !.listedNFTs = listedNFTs,
                            !.idx = 1])
    /\ cacheCall' = NoCacheCall
    /\ dedup' = NoDedup
    /\ UNCHANGED <<phase, seenRareNFTs, currentCollection, config, varsDisk, triggers,
                   dropped, notifiedRun, notifiedAll, sinkFailedFor, ioFailed,
                   exitWrite, fetch, analysis>>

\* index.js:84-92: the listed items after the metadata of listing idx came back.
WithListing(normalizedListedNFTs, listing, nftDetails) ==
    IF nftDetails = Null \/ normalizeNFT(nftDetails) = Null THEN normalizedListedNFTs
    ELSE Append(normalizedListedNFTs,
                [normalizeNFT(nftDetails) EXCEPT !.price = listing.price,
                                                 !.seller = listing.seller])

\* getNFTMetadata of listing idx returns (index.js:83-147): the listing is
\* normalized; after the last one the listed items are classified, the new
\* ones are added to the seen set, the seen set is saved and the sink is called.
MetaReturns(i, nftDetails, io) ==
    /\ phase = "running"
    /\ i \in DOMAIN scans
    /\ scans[i].pc = "meta"
    /\ LET sc      == scans[i]
           listing == sc.listedNFTs[sc.idx]
           listed  == WithListing(sc.normalizedListedNFTs, listing, nftDetails)
           rare    == findRareNFTs(listed, sc.traitAnalysis)
           part    == PartitionRare(rare, seenRareNFTs, <<>>)
           w       == saveSeenRareNFTs(part.seen, io)
           step(sink) == [reached |-> TRUE, rare |-> rare, seenBefore |-> seenRareNFTs,
                          sink |-> sink, items |-> IF sink THEN part.newRareNFTs ELSE <<>>]
       IN  IF nftDetails # Null /\ normalizeNFT(nftDetails) = Throw
              THEN /\ Finish(i, "error")
                   /\ cacheCall' = NoCacheCall
                   /\ dedup' = NoDedup
                   /\ UNCHANGED <<seenRareNFTs, seenFile, ioFailed, notifiedRun,
                                  notifiedAll>>
           ELSE IF sc.idx < Len(sc.listedNFTs)
              THEN /\ Continue(i, [sc EXCEPT !.idx = sc.idx + 1,
                                             !.normalizedListedNFTs = listed])
                   /\ cacheCall' = NoCacheCall
                   /\ dedup' = NoDedup
                   /\ UNCHANGED <<seenRareNFTs, seenFile, ioFailed, notifiedRun,
                                  notifiedAll>>
           ELSE IF Len(rare) = 0
              THEN /\ Finish(i, "noRare")
                   /\ cacheCall' = NoCacheCall
                   /\ dedup' = step(FALSE)
                   /\ UNCHANGED <<seenRareNFTs, seenFile, ioFailed, notifiedRun,
                                  notifiedAll>>
           ELSE /\ seenRareNFTs' = part.seen
                /\ seenFile' = w.file
                /\ ioFailed' = (ioFailed \/ ~w.ret)
                /\ cacheCall' = CacheCall("saveSeenRareNFTs", io, w.ret, Null)
                /\ IF Len(part.newRareNFTs) > 0
                      THEN /\ Continue(i, [sc EXCEPT !.pc = "sink",
                                              !.normalizedListedNFTs =
                                                  Classified(listed, sc.traitAnalysis),
                                              !.newRareNFTs = part.newRareNFTs])
                           /\ dedup' = step(TRUE)
                           /\ notifiedRun' = Counted(notifiedRun, part.newRareNFTs)
                           /\ notifiedAll' = Counted(notifiedAll, part.newRareNFTs)
                      ELSE /\ Finish(i, "nothingNew")
                           /\ dedup' = step(FALSE)
                           /\ UNCHANGED <<notifiedRun, notifiedAll>>
    /\ UNCHANGED <<phase, currentCollection, config, cacheFile, now, triggers,
                   dropped, sinkFailedFor, exitWrite, fetch, analysis>>

\* sendRareSummaryDiscordNotification returns (index.js:147-159).
SinkReturns(i, discordSent) ==
    /\ phase = "running"
    /\ i \in DOMAIN scans
    /\ scans[i].pc = "sink"
    /\ Finish(i, IF discordSent THEN "notified" ELSE "sinkFailed")
    /\ sinkFailedFor' = IF discordSent THEN sinkFailedFor
                        ELSE sinkFailedFor \cup MintsOf(scans[i].newRareNFTs)
    /\ cacheCall' = NoCacheCall
    /\ dedup' = NoDedup
    /\ UNCHANGED <<phase, seenRareNFTs, currentCollection, config, varsDisk, triggers,
                   dropped, notifiedRun, notifiedAll, ioFailed,
                   exitWrite, fetch, analysis>>

ScanIds == 1..MaxTriggers

Next ==
    \/ \E io \in ReadOutcomes : Start(io)
    \/ IntervalTick
    \/ \E io \in WriteOutcomes : Sigint(io)
    \/ \E d \in ClockSteps : Tick(d)
    \/ \E i \in ScanIds, info \in {Null, CollectionInfo}, io \in ReadOutcomes :
          InfoReturns(i, info, io)
    \/ \E i \in ScanIds, allNFTs \in EnumResults, io \in WriteOutcomes :
          EnumerateReturns(i, allNFTs, io)
    \/ \E i \in ScanIds, listedNFTs \in ListingResults : ListingsReturn(i, listedNFTs)
    \/ \E i \in ScanIds :
          /\ i \in DOMAIN scans
          /\ scans[i].pc = "meta"
          /\ \E nftDetails \in MetaResults(scans[i].listedNFTs[scans[i].idx].tokenMint),
                io \in WriteOutcomes : MetaReturns(i, nftDetails, io)
    \/ \E i \in ScanIds, discordSent \in BOOLEAN : SinkReturns(i, discordSent)

Spec == Init /\ [][Next]_vars

(***************************************************************************)
(* The MagicEden client (unnamed/part_000:148-318) and requestError        *)
(* (utils/logger.js:34-45): one call of a client function.  fetch.pc is    *)
(* "idle" (no call yet), "page" (a page request is in flight), "token" (a  *)
(* getNFTMetadata request of the enumeration is in flight), "single" (the  *)
(* request of a single-record function is in flight), "wait" (no request   *)
(* is in flight: requestError awaits its 5 s timer after an HTTP 429, and  *)
(* fetch.suspended names the catch block that awaits it) or "done" (the    *)
(* call has returned fetch.result).                                        *)
(***************************************************************************)
limit == 500

PagedFns  == {"getCollectionListings", "getAllCollectionNFTs"}
SingleFns == {"getCollectionInfo", "getCollectionStats", "getNFTMetadata"}

\* What axios.get rejects with: HTTP 429, HTTP 500, no response at all.
Errors ==
    { [hasResponse |-> TRUE,  status |-> 429, hasConfig |-> TRUE],
      [hasResponse |-> TRUE,  status |-> 500, hasConfig |-> TRUE],
      [hasResponse |-> FALSE, status |-> 0,   hasConfig |-> FALSE] }

\* The value of fetch.err while no catch block awaits requestError.
NoError == [hasResponse |-> FALSE, status |-> 0, hasConfig |-> FALSE]

RespKind(err) == IF err.hasResponse /\ err.status = 429 THEN "429" ELSE "error"

\* A retry on every failure.
requestErrorAlways(err) == TRUE

\* requestError: whether to retry; when it answers TRUE it has awaited its
\* 5 s timer first (utils/logger.js:36-40).
requestError(err) == err.hasResponse /\ err.status = 429 /\ err.hasConfig

\* The remote's data: the mint of the n-th listing and of the n-th activity
\* of a full page; an activity may carry no mint.
NoMint == ""
MintAt(n) == IF n % 2 = 1 THEN "m1" ELSE "m2"
Activity(m) == [tokenMint |-> m]

\* The pages the listings endpoint may answer with at an offset: empty, one
\* record, one short of a full page, and a full page while the remote has
\* more than MaxPages * limit listings.
ListingPageLens(offset) ==
    {0, 1, limit - 1} \cup (IF offset < MaxPages * limit THEN {limit} ELSE {})
ListingPages(offset) ==
    {[k \in 1..n |-> Listing(MintAt(offset + k))] : n \in ListingPageLens(offset)}

\* The pages the activities endpoint may answer with: empty, short ones
\* (a repeated mint, an activity without a mint), and full ones.
ActivityPages(offset) ==
    { <<>>,
      <<Activity("m1")>>,
      <<Activity("m2"), Activity(NoMint), Activity("m2"), Activity("m1")>>,
      <<Activity("m3"), Activity("m2"), Activity("m1")>> }
    \cup (IF offset < MaxPages * limit
             THEN { [k \in 1..limit |-> Activity("m1")],
                    [k \in 1..limit |-> Activity(MintAt(k))] }
             ELSE {})

SingleData(fn, arg) ==
    IF fn = "getNFTMetadata" THEN TokenRecord(arg)
    ELSE IF fn = "getCollectionInfo" THEN CollectionInfo
    ELSE [kind |-> "stats", symbol |-> arg]

\* [...new Set(data.filter(a => a.tokenMint).map(a => a.tokenMint))]: the
\* mints of the page in the order of their first activity.
uniqueTokens(data) ==
    LET present  == {data[i].tokenMint : i \in DOMAIN data} \ {NoMint}
        first(m) == CHOOSE i \in DOMAIN data :
                       /\ data[i].tokenMint = m
                       /\ \A j \in 1..(i - 1) : data[j].tokenMint # m
        rank(m)  == Cardinality({x \in present : first(x) < first(m)})
    IN  [k \in 1..Cardinality(present) |->
            CHOOSE m \in present : rank(m) = k - 1]

NoResult == [kind |-> "none"]
ArrayOf(items) == [kind |-> "array", items |-> items]

NewFetch(fn, arg) ==
    [pc        |-> IF fn \in PagedFns THEN "page" ELSE "single",
     fn        |-> fn,
     arg       |-> arg,
     offset    |-> 0,
     acc       |-> <<>>,      \* allListings, allNFTs
     dataLen   |-> 0,         \* data.length of the last page received
     tokens    |-> <<>>,      \* the unique tokens still to visit, first in flight
     result    |-> NoResult,
     suspended |-> "none",    \* the catch block awaiting requestError: "page" | "token" | "single"
     err       |-> NoError,   \* the error that catch block caught
     \* history of the call
     reqOffset |-> 0,         \* the offset in the url of the last page request
     okOffsets |-> <<>>,      \* the offsets of the page requests that succeeded
     lastReq   |-> "none",    \* what the last response answered: "page" | "token" | "single"
     lastResp  |-> "none",    \* "ok" | "429" | "error"
     tick      |-> FALSE]     \* flips at every response

\* The call returns items.
Returned(f, items) == [f EXCEPT !.pc = "done", !.result = ArrayOf(items)]

\* The catch block of a paginated function (part_000:217-220, 286-289)
\* that moves on to the next page.
OnPageErrorSkips(f, err) ==
    IF requestError(err)
        THEN [f EXCEPT !.offset = f.offset + limit, !.reqOffset = f.offset + limit]
        ELSE Returned(f, f.acc)

\* The catch block of a paginated function (part_000:217-220, 286-289): the
\* loop goes round again with hasMore and offset as they are, or ends.
OnPageError(f, err) ==
    IF requestError(err)
        THEN [f EXCEPT !.reqOffset = f.offset]
        ELSE Returned(f, f.acc)

\* getCollectionListings, a page has arrived (part_000:205-216).
OnListingsPage(f, data) ==
    IF Len(data) > 0
        THEN LET g == [f EXCEPT !.acc = f.acc \o data, !.offset = f.offset + limit,
                                !.reqOffset = f.offset + limit]
             IN  IF Len(data) < limit THEN Returned(g, g.acc) ELSE g
        ELSE Returned(f, f.acc)

\* The for loop and the test after it without the cap.
RECURSIVE OnTokensNoCap(_, _)
OnTokensNoCap(f, tokens) ==
    LET g == [f EXCEPT !.tokens = <<>>, !.offset = f.offset + limit,
                       !.reqOffset = f.offset + limit, !.pc = "page"]
    IN  IF tokens = <<>>
            THEN IF f.dataLen < limit THEN Returned(g, g.acc) ELSE g
        ELSE IF \E i \in DOMAIN f.acc : f.acc[i].mintAddress = Head(tokens)
            THEN OnTokensNoCap(f, Tail(tokens))
        ELSE [f EXCEPT !.pc = "token", !.tokens = tokens]

\* The for loop without the test of allNFTs.some: every unique token of a
\* page is requested.
OnTokensNoDedup(f, tokens) ==
    LET afterLoop(stop) ==
            LET g == [f EXCEPT !.tokens = <<>>, !.offset = f.offset + limit,
                               !.reqOffset = f.offset + limit, !.pc = "page"]
            IN  IF stop \/ f.dataLen < limit \/ Len(f.acc) >= config.maxNFTsToFetch
                   THEN Returned(g, g.acc) ELSE g
    IN  IF tokens = <<>> THEN afterLoop(FALSE)
        ELSE IF Len(f.acc) >= config.maxNFTsToFetch THEN afterLoop(TRUE)
        ELSE [f EXCEPT !.pc = "token", !.tokens = tokens]

\* getAllCollectionNFTs, the for loop over the unique tokens up to its next
\* await (part_000:256-282): tokens already collected are passed over; at the
\* cap the loop breaks; after the loop the offset advances and the fetch goes
\* on to the next page or returns.
RECURSIVE OnTokens(_, _)
OnTokens(f, tokens) ==
    LET afterLoop(stop) ==
            LET g == [f EXCEPT !.tokens = <<>>, !.offset = f.offset + limit,
                               !.reqOffset = f.offset + limit, !.pc = "page"]
            IN  IF stop \/ f.dataLen < limit \/ Len(f.acc) >= config.maxNFTsToFetch
                   THEN Returned(g, g.acc) ELSE g
    IN  IF tokens = <<>> THEN afterLoop(FALSE)
        ELSE IF Len(f.acc) >= config.maxNFTsToFetch THEN afterLoop(TRUE)
        ELSE IF \E i \in DOMAIN f.acc : f.acc[i].mintAddress = Head(tokens)
            THEN OnTokens(f, Tail(tokens))
        ELSE [f EXCEPT !.pc = "token", !.tokens = tokens]

\* getAllCollectionNFTs, a page has arrived (part_000:249-285).
OnActivitiesPage(f, data) ==
    IF Len(data) > 0
        THEN OnTokens(f, uniqueTokens(data))
        ELSE Returned(f, f.acc)

\* getNFTMetadata inside the enumeration has returned metadata or null
\* (part_000:266-269).
OnTokenMetadata(f, metadata) ==
    OnTokens(IF metadata # Null THEN [f EXCEPT !.acc = Append(f.acc, metadata)] ELSE f,
             Tail(f.tokens))

\* A single-record function: the data, or null after requestError
\* (part_000:161-170, 177-186, 301-310).
OnSingleOk(f, data) == [f EXCEPT !.pc = "done", !.result = data]
OnSingleError(f, err) == [f EXCEPT !.pc = "done", !.result = Null]

Answered(f, req, resp) ==
    [f EXCEPT !.lastReq = req, !.lastResp = resp, !.tick = ~f.tick]

\* A client function is called.
Call(fn, arg) ==
    /\ fetch.pc \in {"idle", "done"}
    /\ fetch' = NewFetch(fn, arg)
    /\ UNCHANGED <<varsProc, varsDisk, varsHist, varsLast, analysis, timer>>

\* The page request in flight is answered with a page.
PageArrives(data) ==
    /\ fetch.pc = "page"
    /\ LET f == [Answered(fetch, "page", "ok")
                    EXCEPT !.okOffsets = Append(fetch.okOffsets, fetch.reqOffset),
                           !.dataLen = Len(data)]
       IN  fetch' = IF fetch.fn = "getCollectionListings"
                       THEN OnListingsPage(f, data)
                       ELSE OnActivitiesPage(f, data)
    /\ UNCHANGED <<varsProc, varsDisk, varsHist, varsLast, analysis, timer>>

\* The catch block named by site calls requestError, which starts its 5 s
\* timer and awaits it: the function is suspended with no request in flight
\* and its locals as they are (utils/logger.js:36-38).
Suspended(f, site, err) == [f EXCEPT !.pc = "wait", !.suspended = site, !.err = err]

\* The page request in flight fails: on an HTTP 429 the catch block waits in
\* requestError, otherwise it ends the loop at once.
PageFails(err) ==
    /\ fetch.pc = "page"
    /\ LET f == Answered(fetch, "page", RespKind(err))
       IN  fetch' = IF requestError(err) THEN Suspended(f, "page", err)
                                         ELSE OnPageError(f, err)
    /\ UNCHANGED <<varsProc, varsDisk, varsHist, varsLast, analysis, timer>>

\* The getNFTMetadata request of the enumeration is answered or fails.
TokenArrives ==
    /\ fetch.pc = "token"
    /\ fetch' = OnTokenMetadata(Answered(fetch, "token", "ok"),
                                TokenRecord(Head(fetch.tokens)))
    /\ UNCHANGED <<varsProc, varsDisk, varsHist, varsLast, analysis, timer>>

TokenFails(err) ==
    /\ fetch.pc = "token"
    /\ LET f == Answered(fetch, "token", RespKind(err))
       IN  fetch' = IF requestError(err) THEN Suspended(f, "token", err)
                                         ELSE OnTokenMetadata(f, Null)
    /\ UNCHANGED <<varsProc, varsDisk, varsHist, varsLast, analysis, timer>>

\* The request of a single-record function is answered or fails.
SingleArrives ==
    /\ fetch.pc = "single"
    /\ fetch' = OnSingleOk(Answered(fetch, "single", "ok"),
                           SingleData(fetch.fn, fetch.arg))
    /\ UNCHANGED <<varsProc, varsDisk, varsHist, varsLast, analysis, timer>>

SingleFails(err) ==
    /\ fetch.pc = "single"
    /\ LET f == Answered(fetch, "single", RespKind(err))
       IN  fetch' = IF requestError(err) THEN Suspended(f, "single", err)
                                         ELSE OnSingleError(f, err)
    /\ UNCHANGED <<varsProc, varsDisk, varsHist, varsLast, analysis, timer>>

\* The 5 s timer of requestError fires: requestError returns true and the
\* catch block that awaited it goes on: a paginated function requests its
\* page again, getNFTMetadata returns null (to the enumeration, which goes on
\* with the next token, or to its caller).
BackoffElapses ==
    /\ fetch.pc = "wait"
    /\ LET f == [fetch EXCEPT !.pc = fetch.suspended, !.suspended = "none",
                              !.err = NoError]
       IN  fetch' = IF fetch.suspended = "page" THEN OnPageError(f, fetch.err)
                    ELSE IF fetch.suspended = "token" THEN OnTokenMetadata(f, Null)
                    ELSE OnSingleError(f, fetch.err)
    /\ UNCHANGED <<varsProc, varsDisk, varsHist, varsLast, analysis, timer>>

FetchArgs(fn) == IF fn = "getNFTMetadata" THEN Mints ELSE {Symbol}

Respond ==
    \/ \E data \in (IF fetch.pc = "page" /\ fetch.fn = "getCollectionListings"
                       THEN ListingPages(fetch.reqOffset)
                       ELSE IF fetch.pc = "page" THEN ActivityPages(fetch.reqOffset)
                       ELSE {}) : PageArrives(data)
    \/ \E err \in Errors : PageFails(err)
    \/ TokenArrives
    \/ \E err \in Errors : TokenFails(err)
    \/ SingleArrives
    \/ \E err \in Errors : SingleFails(err)

NextFetch ==
    \/ \E fn \in PagedFns \cup SingleFns : \E arg \in FetchArgs(fn) : Call(fn, arg)
    \/ Respond
    \/ BackoffElapses

SpecFetch == Init /\ [][NextFetch]_vars

\* Every request in flight is eventually answered and every timer fires.
FairSpecFetch == SpecFetch /\ WF_vars(Respond) /\ WF_vars(BackoffElapses)

(***************************************************************************)
(* The cache store on its own (src/utils/cache.js:173-180): a caller of    *)
(* the exported functions, a cache directory that holds any files at the   *)
(* start, either setting of cacheFullCollectionData, and a clock.          *)
(***************************************************************************)
MaxPeriods == 2     \* the clock stops after this many expiry periods

CacheConfigs ==
    {[cfg EXCEPT !.cacheFullCollectionData = c] : cfg \in Configs, c \in BOOLEAN}

\* The arrays a caller hands to saveToCache.
SnapshotData == { <<>>, <<TokenRecord("m1")>>, <<TokenRecord("m1"), TokenRecord("m2")>> }

\* The snapshot and seen-set files the directory may hold at the start.
SnapshotFiles ==
    { NoCacheFile,
      [state |-> "ok", data |-> <<TokenRecord("m1")>>, mtime |-> 0],
      [state |-> "malformed", data |-> <<>>, mtime |-> 0] }
SeenFiles ==
    { NoFile,
      [state |-> "ok", content |-> {"m1"}],
      [state |-> "malformed", content |-> {}] }

InitCache ==
    /\ InitProc
    /\ config \in CacheConfigs
    /\ cacheFile \in SnapshotFiles
    /\ seenFile \in SeenFiles
    /\ now = 0
    /\ InitHist
    /\ fetch = NoFetch
    /\ cacheCall = NoCacheCall
    /\ dedup = NoDedup
    /\ analysis = NoAnalyzerCall
    /\ timer = NoTimer

CallCacheExists(io) ==
    /\ cacheCall' = CacheCall("cacheExists", io, cacheExists(io), Null)
    /\ UNCHANGED <<varsProc, varsDisk, varsHist, fetch, dedup, analysis, timer>>

CallSaveToCache(data, io) ==
    /\ cacheFile' = saveToCache(data, io).file
    /\ cacheCall' = CacheCall("saveToCache", io, saveToCache(data, io).ret, Null)
    /\ UNCHANGED <<varsProc, seenFile, now, varsHist, fetch, dedup, analysis, timer>>

CallLoadFromCache(io) ==
    /\ cacheCall' = CacheCall("loadFromCache", io, FALSE, loadFromCache(io))
    /\ UNCHANGED <<varsProc, varsDisk, varsHist, fetch, dedup, analysis, timer>>

CallSaveSeenRareNFTs(seen, io) ==
    /\ seenFile' = saveSeenRareNFTs(seen, io).file
    /\ cacheCall' = CacheCall("saveSeenRareNFTs", io, saveSeenRareNFTs(seen, io).ret, Null)
    /\ UNCHANGED <<varsProc, cacheFile, now, varsHist, fetch, dedup, analysis, timer>>

CallLoadSeenRareNFTs(io) ==
    /\ cacheCall' = CacheCall("loadSeenRareNFTs", io, FALSE, SetOf(loadSeenRareNFTs(io)))
    /\ UNCHANGED <<varsProc, varsDisk, varsHist, fetch, dedup, analysis, timer>>

CallClearCache(io) ==
    /\ cacheFile' = clearCache(io).file
    /\ cacheCall' = CacheCall("clearCache", io, clearCache(io).ret, Null)
    /\ UNCHANGED <<varsProc, seenFile, now, varsHist, fetch, dedup, analysis, timer>>

\* Time passes until the snapshot file is one millisecond short of its
\* expiry, exactly at it, or one millisecond past it.
ExpiryMs == config.cacheExpireHours * HourMs
Ages == {ExpiryMs - 1, ExpiryMs, ExpiryMs + 1}

Elapse(age) ==
    /\ cacheFile.state # "missing"
    /\ now - cacheFile.mtime < age
    /\ cacheFile.mtime + age <= MaxPeriods * (ExpiryMs + 1)
    /\ now' = cacheFile.mtime + age
    /\ cacheCall' = NoCacheCall
    /\ UNCHANGED <<varsProc, seenFile, cacheFile, varsHist, fetch, dedup, analysis, timer>>

NextCache ==
    \/ \E io \in ReadOutcomes : CallCacheExists(io)
    \/ \E data \in SnapshotData, io \in WriteOutcomes : CallSaveToCache(data, io)
    \/ \E io \in ReadOutcomes : CallLoadFromCache(io)
    \/ \E seen \in SUBSET Mints, io \in WriteOutcomes : CallSaveSeenRareNFTs(seen, io)
    \/ \E io \in ReadOutcomes : CallLoadSeenRareNFTs(io)
    \/ \E io \in ClearOutcomes : CallClearCache(io)
    \/ \E age \in Ages : Elapse(age)

SpecCache == InitCache /\ [][NextCache]_vars

(***************************************************************************)
(* The analyzer on its own (unnamed/part_000:142-146): a caller that       *)
(* normalizes records, counts the traits of a collection and classifies a  *)
(* list of items against the counts, and then the same list once more,     *)
(* under either setting of oneOfOneThreshold and two of percentThreshold.  *)
(***************************************************************************)
AnalyzerConfigs ==
    {[cfg EXCEPT !.oneOfOneThreshold = o, !.percentThreshold = t] :
        cfg \in Configs, o \in BOOLEAN, t \in {1, 50}}

\* Records of four tokens: two hats, a hat and eyes, an empty value (read as
\* 'None' by the analyzer), and a token with no attribute at all.
Palette ==
    << [TokenRecord("m1") EXCEPT !.attributes.items =
            <<[trait_type |-> "Hat", value |-> "Crown"]>>],
       [TokenRecord("m2") EXCEPT !.attributes.items =
            <<[trait_type |-> "Hat", value |-> "Cap"]>>],
       [TokenRecord("m3") EXCEPT !.attributes.items =
            <<[trait_type |-> "Hat", value |-> "Cap"],
              [trait_type |-> "Eyes", value |-> "Blue"]>>],
       [TokenRecord("m4") EXCEPT !.attributes.items =
            <<[trait_type |-> "Hat", value |-> ""]>>],
       [TokenRecord("m5") EXCEPT !.attributes.items =
            <<[trait_type |-> "Hat", value |-> "toString"],
              [trait_type |-> "Eyes", value |-> "Blue"],
              [trait_type |-> "__proto__", value |-> "x"]>>],
       [TokenRecord("m6") EXCEPT !.attributes.items =
            <<[trait_type |-> "constructor", value |-> ""]>>] >>

\* The records of Palette at the positions in I, in the order of Palette.
Pick(I) ==
    LET nth(k) == CHOOSE i \in I : Cardinality({j \in I : j < i}) = k - 1
    IN  [k \in 1..Cardinality(I) |-> Palette[nth(k)]]

Selections == {Pick(I) : I \in (SUBSET DOMAIN Palette) \ {{}}}

InitAnalyzer ==
    /\ InitProc
    /\ config \in AnalyzerConfigs
    /\ InitDisk
    /\ InitHist
    /\ fetch = NoFetch
    /\ cacheCall = NoCacheCall
    /\ dedup = NoDedup
    /\ analysis = NoAnalyzerCall
    /\ timer = NoTimer

\* countTraits over a collection, then findRareNFTs over a list of items.
Classify(collection, listed) ==
    LET traitAnalysis == countTraits(NormalizeAll(collection))
        nfts          == NormalizeAll(listed)
    IN  /\ ~analysis.called
        /\ analysis' = [called        |-> TRUE,
                        times         |-> 1,
                        collection    |-> NormalizeAll(collection),
                        nfts          |-> nfts,
                        traitAnalysis |-> traitAnalysis,
                        rareNFTs      |-> findRareNFTs(nfts, traitAnalysis),
                        after         |-> Classified(nfts, traitAnalysis),
                        again         |-> <<>>]
        /\ UNCHANGED <<varsProc, varsDisk, varsHist, fetch, varsLast, timer>>

\* findRareNFTs once more over the same array and the same counts.
Reclassify ==
    /\ analysis.called
    /\ analysis.times = 1
    /\ analysis' = [analysis EXCEPT
                       !.times = 2,
                       !.again = findRareNFTs(analysis.after, analysis.traitAnalysis),
                       !.after = Classified(analysis.after, analysis.traitAnalysis)]
    /\ UNCHANGED <<varsProc, varsDisk, varsHist, fetch, varsLast, timer>>

NextAnalyzer ==
    \/ \E collection \in Selections, listed \in Selections : Classify(collection, listed)
    \/ Reclassify

SpecAnalyzer == InitAnalyzer /\ [][NextAnalyzer]_vars


(***************************************************************************)
(* The scheduler against the clock (src/index.js:195-243): the start-up    *)
(* call of main, the setInterval timer and scans that take time.  A scan   *)
(* goes through the steps of the cycle; the clock moves in half intervals  *)
(* between any two steps, so a scan may take no time, less than the        *)
(* interval, the interval, or more.                                        *)
(***************************************************************************)
MaxIntervals == 2      \* the clock stops after this many intervals

MinuteMs == 60000
IntervalMs == config.scanIntervalMinutes * MinuteMs
TimeSteps == {IntervalMs \div 2}

\* setupIntervalRuns: the seen set is loaded, main is called and the timer is
\* set, its first callback one interval from now.
SetupIntervalRuns(io) ==
    /\ phase = "stopped"
    /\ timer.due = NoTime
    /\ LET m == main(FALSE, <<>>)
       IN  /\ isScanRunning' = m.isScanRunning
           /\ scans' = m.scans
           /\ dropped' = IF m.skipped THEN 1 ELSE 0
    /\ phase' = "running"
    /\ seenRareNFTs' = loadSeenRareNFTs(io)
    /\ ioFailed' = (ioFailed \/ LoadFailed(io))
    /\ currentCollection' = Symbol
    /\ triggers' = triggers + 1
    /\ timer' = [timer EXCEPT !.due = now + IntervalMs]
    /\ cacheCall' = CacheCall("loadSeenRareNFTs", io, TRUE, SetOf(loadSeenRareNFTs(io)))
    /\ UNCHANGED <<config, varsDisk, notifiedRun, notifiedAll, sinkFailedFor, exitWrite,
                   lastOutcome, fetch, dedup, analysis>>

\* The clock moves on, at most up to the time the timer's callback is due.
TimePasses(d) ==
    /\ phase = "running"
    /\ now + d <= timer.due
    /\ now + d <= MaxIntervals * IntervalMs
    /\ now' = now + d
    /\ cacheCall' = NoCacheCall
    /\ dedup' = NoDedup
    /\ UNCHANGED <<varsProc, seenFile, cacheFile, varsHist, fetch, analysis, timer>>

\* The timer's callback (index.js:239-242) runs when it is due and calls
\* main; the timer is due again one interval later.
TimerFires ==
    /\ phase = "running"
    /\ now = timer.due
    /\ LET m == main(isScanRunning, scans)
       IN  /\ isScanRunning' = m.isScanRunning
           /\ scans' = m.scans
           /\ dropped' = IF m.skipped THEN dropped + 1 ELSE dropped
    /\ currentCollection' = Symbol
    /\ triggers' = triggers + 1
    /\ timer' = [timer EXCEPT !.due = timer.due + IntervalMs]
    /\ cacheCall' = NoCacheCall
    /\ dedup' = NoDedup
    /\ UNCHANGED <<phase, seenRareNFTs, config, varsDisk, notifiedRun, notifiedAll,
                   sinkFailedFor, ioFailed, exitWrite, lastOutcome, fetch, analysis>>

\* The scheduler's steps against the clock and the steps of the scan cycle,
\* each of which may come after any stretch of time.
NextTimer ==
    \/ \E io \in ReadOutcomes : SetupIntervalRuns(io)
    \/ \E d \in TimeSteps : TimePasses(d)
    \/ TimerFires
    \/ \E i \in ScanIds, info \in {Null, CollectionInfo}, io \in ReadOutcomes :
          InfoReturns(i, info, io)
    \/ \E i \in ScanIds, allNFTs \in EnumResults, io \in WriteOutcomes :
          EnumerateReturns(i, allNFTs, io)
    \/ \E i \in ScanIds, listedNFTs \in ListingResults : ListingsReturn(i, listedNFTs)
    \/ \E i \in ScanIds :
          /\ i \in DOMAIN scans
          /\ scans[i].pc = "meta"
          /\ \E nftDetails \in MetaResults(scans[i].listedNFTs[scans[i].idx].tokenMint),
                io \in WriteOutcomes : MetaReturns(i, nftDetails, io)
    \/ \E i \in ScanIds, discordSent \in BOOLEAN : SinkReturns(i, discordSent)

SpecTimer == Init /\ [][NextTimer]_vars

(***************************************************************************)
(* Properties of the scheduler and the scan cycle, checked under Spec.     *)
(***************************************************************************)
\* An interval tick that finds a scan in progress.
DroppedTrigger == phase = "running" /\ isScanRunning /\ triggers' = triggers + 1

\* C1: single-flight.  In every reachable state at most one scan cycle is in
\* flight, and a trigger that arrives during a cycle is dropped: it starts no
\* cycle, leaves every cycle where it is (no request is issued, nothing is
\* classified), leaves the in-memory seen set, the seen-set file, the
\* snapshot file and the sink counters unchanged, and the flag stays set.
C1_SingleFlight ==
    /\ [](Len(scans) <= 1)
    /\ [][DroppedTrigger =>
             /\ scans' = scans
             /\ isScanRunning'
             /\ dropped' = dropped + 1
             /\ UNCHANGED <<seenRareNFTs, seenFile, cacheFile, notifiedRun,
                            notifiedAll, lastOutcome>>]_vars

\* A trigger was dropped while a cycle waits for a remote call.
C1_Witness == phase = "running" /\ dropped = 1 /\ Len(scans) = 1 /\ isScanRunning

\* C2: within one process no mint is handed to the notification sink more
\* than once, whatever the listings hold and however many cycles run.
C2_NoDuplicateInRun == \A m \in Mints : notifiedRun[m] <= 1

\* A cycle of this process notified a mint, and a later cycle of the same
\* process found rare items, all of them already seen, and called no sink.
C2_Witness ==
    /\ phase = "running"
    /\ lastOutcome = "nothingNew"
    /\ \E m \in Mints : notifiedRun[m] = 1

\* C3: over all runs of the process, whatever the reads and writes of the
\* seen-set file do, no mint is handed to the sink twice.
C3_NoDuplicateAcrossRuns == \A m \in Mints : notifiedAll[m] <= 1

\* C4: while a process runs, the in-memory seen set only grows.
C4_SeenMonotonic ==
    [][(phase = "running" /\ phase' = "running") =>
          seenRareNFTs \subseteq seenRareNFTs']_vars

\* The seen set has grown twice.
C4_Witness == phase = "running" /\ seenRareNFTs = Mints

\* C5: SIGINT can be handled in every state of a running process; the handler
\* writes the seen set and the process exits; when the write succeeded the
\* file holds the in-memory seen set of the moment of the signal, and when it
\* failed the process has exited all the same.
C5_ShutdownPersistence ==
    /\ [](phase = "running" => ENABLED (\E io \in WriteOutcomes : Sigint(io)))
    /\ [][(phase = "running" /\ phase' = "stopped") =>
             /\ exitWrite' \in {"ok", "failed"}
             /\ exitWrite' = "ok" =>
                   seenFile' = [state |-> "ok", content |-> seenRareNFTs]]_vars

\* The process has exited on SIGINT and the file holds a seen set that the
\* handler wrote.
C5_Witness ==
    /\ phase = "stopped"
    /\ exitWrite = "ok"
    /\ seenFile.state = "ok"
    /\ seenFile.content = Mints

\* C6: whenever a cycle ends, by success, by an early return or by an
\* exception, the flag is cleared and the process keeps running; the flag is
\* never set without a cycle in flight, and a trigger that finds no cycle in
\* flight starts one.
C6_ReturnToIdle ==
    /\ [](phase = "running" /\ scans = <<>> => ~isScanRunning)
    /\ [][(phase = "running" /\ Len(scans') < Len(scans) /\ exitWrite' = "none") =>
             /\ phase' = "running"
             /\ ~isScanRunning']_vars
    /\ [][(phase = "running" /\ scans = <<>> /\ triggers' = triggers + 1) =>
             /\ Len(scans') = 1
             /\ scans'[1].pc = "info"
             /\ isScanRunning']_vars

\* A cycle ended by an exception and the next trigger started a new cycle.
C6_Witness ==
    /\ phase = "running"
    /\ lastOutcome = "error"
    /\ dropped = 0
    /\ triggers = 2
    /\ Len(scans) = 1

\* C13: with cacheFullCollectionData off, no step of the process changes the
\* snapshot file; saveToCache returns false; loadFromCache returns null, also
\* when a fresh snapshot file exists; and a cycle that got the collection
\* info goes on to the remote enumeration, so the records a cycle analyses
\* always come from an enumeration.
C13_CachingDisabled ==
    [][~config.cacheFullCollectionData =>
          /\ cacheFile' = cacheFile
          /\ cacheCall'.op = "saveToCache" => ~cacheCall'.ok
          /\ cacheCall'.op = "loadFromCache" =>
                /\ cacheCall'.value = Null
                /\ Len(scans) = 1 /\ scans[1].pc = "info"
                /\ Len(scans') = 1 /\ scans'[1].pc = "enumerate"
          /\ (Len(scans') = 1 /\ scans'[1].pc = "listings") =>
                (Len(scans) = 1 /\ scans[1].pc \in {"enumerate", "listings"})]_vars

\* Caching is off, a fresh snapshot is in the cache directory, loadFromCache
\* has been called without any failure and returned null, and the cycle
\* waits for the enumeration.
C13_Witness ==
    /\ ~config.cacheFullCollectionData
    /\ cacheFile = LeftoverSnapshot
    /\ now - cacheFile.mtime <= config.cacheExpireHours * HourMs
    /\ cacheCall.op = "loadFromCache"
    /\ cacheCall.io = "ok"
    /\ cacheCall.value = Null
    /\ Len(scans) = 1
    /\ scans[1].pc = "enumerate"

\* The positions of the rare listed items of the last step whose mint was not
\* in the seen set and is at no earlier position.
NewIdx ==
    {i \in DOMAIN dedup.rare :
        /\ dedup.rare[i].mintAddress \notin dedup.seenBefore
        /\ \A j \in 1..(i - 1) : dedup.rare[j].mintAddress # dedup.rare[i].mintAddress}

\* Has the listed item a trait that the classification marked rare.
MarkedRare(nft) == \E type \in DOMAIN nft.rarity : nft.rarity[type].rare

\* C19: the in-memory seen set of a running process changes only in step 8
\* of a cycle, so there it is the seen set of the start of the cycle; in a
\* cycle that has classified its listed items the sink is called if and only
\* if a rare listed item has a mint outside the seen set, the rare listed
\* items being the items of the cycle's list of listed items that carry a
\* trait marked rare; the item list is those items with a mint outside the
\* seen set, in order, each mint once; their mints are added to the seen
\* set; the sink is called from the classification step only, and a cycle
\* that waits for the sink does nothing but end, so it calls it once.
C19_SinkInvocation ==
    /\ [](dedup.reached =>
             /\ dedup.sink <=> NewIdx # {}
             /\ Len(dedup.items) = Cardinality(NewIdx)
             /\ \A i \in NewIdx :
                   dedup.items[Cardinality({j \in NewIdx : j <= i})] = dedup.rare[i]
             /\ seenRareNFTs = dedup.seenBefore \cup MintsOf(dedup.items)
             /\ dedup.sink =>
                   /\ Len(scans) = 1 /\ scans[1].pc = "sink"
                   /\ scans[1].newRareNFTs = dedup.items
                   /\ dedup.rare = SelectSeq(scans[1].normalizedListedNFTs, MarkedRare)
             /\ ~dedup.sink => (scans = <<>> /\ lastOutcome \in {"noRare", "nothingNew"}))
    /\ [][dedup'.reached =>
             /\ dedup'.seenBefore = seenRareNFTs
             /\ Len(scans) = 1 /\ scans[1].pc = "meta"]_vars
    /\ [][(phase = "running" /\ phase' = "running" /\ ~dedup'.reached) =>
             seenRareNFTs' = seenRareNFTs]_vars
    /\ [][(Len(scans) = 1 /\ scans[1].pc = "sink" /\ scans' # scans) =>
             (scans' = <<>> /\ ~dedup'.sink)]_vars

\* The same one-of-one item was listed twice and was not in the seen set:
\* the sink was called with one item and the mint is in the seen set.
C19_Witness ==
    /\ dedup.reached
    /\ dedup.sink
    /\ dedup.seenBefore = {}
    /\ Len(dedup.rare) = 2
    /\ Len(dedup.items) = 1
    /\ dedup.items[1].rarity["Hat"].reason = "One of one trait"
    /\ seenRareNFTs = {dedup.items[1].mintAddress}

\* The step that calls the sink has saved the seen set first, and the seen
\* set it saved holds the mints it hands to the sink.
SavedBeforeSink ==
    dedup'.sink =>
        /\ cacheCall'.op = "saveSeenRareNFTs"
        /\ MintsOf(dedup'.items) \subseteq seenRareNFTs'
        /\ cacheCall'.ok => seenFile' = [state |-> "ok", content |-> seenRareNFTs']

\* The sink returns, true or false: the seen set and its file are as they
\* were, the cycle ends without an error and the process runs on.
SinkReturned ==
    (phase = "running" /\ Len(scans) = 1 /\ scans[1].pc = "sink" /\ scans' = <<>>
        /\ phase' = "running") =>
        /\ seenRareNFTs' = seenRareNFTs
        /\ seenFile' = seenFile
        /\ ~isScanRunning'
        /\ lastOutcome' \in {"notified", "sinkFailed"}
        /\ lastOutcome' = "sinkFailed" =>
              MintsOf(scans[1].newRareNFTs) \subseteq sinkFailedFor'

\* C20: the seen set is saved before the sink is called; a sink that
\* returns false changes neither the seen set nor its file and does not fail
\* the cycle; and no mint of a failed sink call is handed to the sink again
\* in any later cycle, of this or of a later process.
C20_DedupBeforeNotification ==
    /\ [][SavedBeforeSink]_vars
    /\ [][SinkReturned]_vars
    /\ [][dedup'.sink => MintsOf(dedup'.items) \cap sinkFailedFor = {}]_vars

(***************************************************************************)
(* Properties of the client functions, checked under SpecFetch and         *)
(* FairSpecFetch.                                                          *)
(***************************************************************************)
\* C7: a paginated fetch whose requests are always answered terminates, also
\* when the answers are HTTP 429 every time.
C7_BoundedRetry == (fetch.pc = "page") ~> (fetch.pc = "done")

\* A response to the page request in flight, and one that is an HTTP 429.
PageAnswered == fetch.pc = "page" /\ fetch'.tick # fetch.tick
PageRateLimited == PageAnswered /\ fetch'.lastResp = "429"
\* The wait that follows an HTTP 429 on a page request is over.
PageWaitOver == fetch.pc = "wait" /\ fetch.suspended = "page" /\ fetch' # fetch

\* C8: after an HTTP 429 on a page request the function waits with no
\* request in flight, and the request that follows the wait has the same
\* offset and the accumulated records are unchanged; the offset changes only
\* by the page size, and only when the last page request succeeded at the
\* current offset with at least one record; so the successful page requests
\* of a fetch have the offsets 0, 500, 1000, ... in order.
C8_RetrySameRequest ==
    /\ [](fetch.pc # "idle" =>
             \A k \in DOMAIN fetch.okOffsets : fetch.okOffsets[k] = (k - 1) * limit)
    /\ [][(PageRateLimited \/ PageWaitOver) =>
             /\ fetch'.pc = (IF PageWaitOver THEN "page" ELSE "wait")
             /\ fetch'.suspended = (IF PageWaitOver THEN "none" ELSE "page")
             /\ fetch'.reqOffset = fetch.reqOffset
             /\ fetch'.offset = fetch.offset
             /\ fetch'.acc = fetch.acc
             /\ fetch'.okOffsets = fetch.okOffsets]_vars
    /\ [][(fetch.pc \in {"page", "token", "wait"} /\ fetch'.offset # fetch.offset) =>
             /\ fetch'.offset = fetch.offset + limit
             /\ fetch'.dataLen > 0
             /\ fetch'.okOffsets # <<>>
             /\ fetch'.okOffsets[Len(fetch'.okOffsets)] = fetch.offset]_vars

\* The request of the second page of the listings, with the first page
\* accumulated, has just been answered with an HTTP 429 and is in flight again.
C8_Witness ==
    /\ fetch.pc = "page"
    /\ fetch.fn = "getCollectionListings"
    /\ fetch.lastResp = "429"
    /\ fetch.reqOffset = limit
    /\ Len(fetch.acc) = limit

\* C9: after an HTTP 429 a single-record function waits and then has its
\* request in flight again; it has not returned, and so has not returned null.
C9_SingleRetry ==
    (fetch.fn \in SingleFns /\ fetch.lastResp = "429") =>
        (fetch.pc \in {"wait", "single"} /\ fetch.result # Null)

\* C10: a failure that is no HTTP 429 ends the function at once: a paginated
\* function returns exactly the records of the earlier pages, a single-record
\* function returns null, nothing is thrown and no request follows; inside
\* the enumeration the failed token is left out and not requested again.
C10_NonRetryableFailure ==
    /\ [][(PageAnswered /\ fetch'.lastResp = "error") =>
             /\ fetch'.pc = "done"
             /\ fetch'.result = ArrayOf(fetch.acc)]_vars
    /\ [][(fetch.pc = "single" /\ fetch'.tick # fetch.tick
              /\ fetch'.lastResp = "error") =>
             /\ fetch'.pc = "done"
             /\ fetch'.result = Null]_vars
    /\ [][(fetch.pc = "token" /\ fetch'.tick # fetch.tick
              /\ fetch'.lastResp = "error") =>
             /\ fetch'.acc = fetch.acc
             /\ fetch'.pc = "token" =>
                   /\ Len(fetch'.tokens) < Len(fetch.tokens)
                   /\ Head(fetch'.tokens) # Head(fetch.tokens)]_vars

\* The listings fetch has returned the one full page it had when its second
\* page request failed with an error that is no HTTP 429.
C10_Witness ==
    /\ fetch.pc = "done"
    /\ fetch.fn = "getCollectionListings"
    /\ fetch.lastResp = "error"
    /\ fetch.result = ArrayOf([k \in 1..limit |-> Listing(MintAt(k))])

\* C11: at every point of getAllCollectionNFTs the number of collected records
\* is at most maxNFTsToFetch; as soon as it equals the cap the function has
\* returned, so no activity page and no token metadata is requested after
\* that; and the result is the collected list, of at most maxNFTsToFetch
\* records.
C11_EnumerationCap ==
    fetch.fn = "getAllCollectionNFTs" =>
        /\ Len(fetch.acc) <= config.maxNFTsToFetch
        /\ Len(fetch.acc) >= config.maxNFTsToFetch => fetch.pc = "done"
        /\ fetch.pc = "done" =>
              /\ fetch.result = ArrayOf(fetch.acc)
              /\ Len(fetch.result.items) <= config.maxNFTsToFetch

\* The enumeration has returned with as many records as the cap allows, right
\* after a token's metadata arrived, although its last activity page was a
\* full one and the feed was not exhausted.
C11_Witness ==
    /\ fetch.fn = "getAllCollectionNFTs"
    /\ fetch.pc = "done"
    /\ fetch.lastReq = "token"
    /\ fetch.dataLen = limit
    /\ Len(fetch.result.items) = config.maxNFTsToFetch

\* C27: at every point of getAllCollectionNFTs, and in its result, no two
\* collected records have the same mint address, whether a mint repeats within
\* an activity page, on a later page or on a page requested again after a
\* 429; the metadata of a token is requested only while no collected record
\* has its mint.
C27_EnumerationNoDuplicates ==
    fetch.fn = "getAllCollectionNFTs" =>
        /\ \A i, j \in DOMAIN fetch.acc :
               i # j => fetch.acc[i].mintAddress # fetch.acc[j].mintAddress
        /\ fetch.pc = "token" =>
               /\ fetch.tokens # <<>>
               /\ \A i \in DOMAIN fetch.acc :
                      fetch.acc[i].mintAddress # Head(fetch.tokens)
        /\ \A i, j \in DOMAIN fetch.tokens :
               i # j => fetch.tokens[i] # fetch.tokens[j]
        /\ fetch.pc = "done" =>
               \A i, j \in DOMAIN fetch.result.items :
                   i # j => fetch.result.items[i].mintAddress
                               # fetch.result.items[j].mintAddress

\* Two activity pages were served and the second named only the mint
\* collected from the first: no token was requested for it and the result
\* holds the mint once.
C27_Witness ==
    /\ fetch.fn = "getAllCollectionNFTs"
    /\ fetch.pc = "done"
    /\ Len(fetch.okOffsets) = 2
    /\ fetch.lastReq = "page"
    /\ fetch.dataLen = 1
    /\ fetch.result = ArrayOf(<<TokenRecord("m1")>>)

(***************************************************************************)
(* Properties of the analyzer, checked under SpecAnalyzer.                 *)
(***************************************************************************)
\* The value an item is counted under for a trait type: its own, or the
\* literal "None" when it has none.
CountedUnder(item, type) ==
    IF type \in DOMAIN item.traits /\ item.traits[type] # ""
        THEN item.traits[type] ELSE "None"

\* The classification rule as the specification words it.
RuleRare(stat) ==
    \/ config.oneOfOneThreshold /\ stat.count = Number(1)
    \/ /\ stat.percentage.kind = "number"
       /\ stat.percentage.n <= config.percentThreshold * 100

\* The trait types of the counts for which the item's value, or "None" when
\* it has none, has a stat.
StatTypes(nft, ta) ==
    {type \in ta.traitTypes : CountedUnder(nft, type) \in DOMAIN ta.traitCounts[type]}
StatOf(nft, ta, type) == ta.traitCounts[type][CountedUnder(nft, type)]

\* The positions of the items that have a rare trait by the rule.
RareIdx == {i \in DOMAIN analysis.nfts :
               \E type \in StatTypes(analysis.nfts[i], analysis.traitAnalysis) :
                   RuleRare(StatOf(analysis.nfts[i], analysis.traitAnalysis, type))}

\* C17: findRareNFTs returns, in the order of its input, exactly the items
\* that have at least one rare trait; on a returned item every trait type
\* whose value (or "None" when the item lacks the trait) has a stat carries
\* the stat's count and percentage and is marked rare if and only if
\* (one-of-one is on and count = 1) or percentage <= percentThreshold; the
\* reason is the one-of-one reason whenever one-of-one is on and count = 1,
\* also when the percentage is within the threshold or far above it, and the
\* threshold reason otherwise.
C17_ClassificationRule ==
    analysis.called =>
        LET ta == analysis.traitAnalysis
            rareNFTs == analysis.rareNFTs
        IN  /\ Len(rareNFTs) = Cardinality(RareIdx)
            /\ \A i \in RareIdx :
                  LET k    == Cardinality({j \in RareIdx : j <= i})
                      nft  == analysis.nfts[i]
                      rare == rareNFTs[k]
                  IN  /\ rare.mintAddress = nft.mintAddress
                      /\ rare.traits = nft.traits
                      /\ StatTypes(nft, ta) \subseteq DOMAIN rare.rarity
                      /\ \A type \in StatTypes(nft, ta) :
                            LET stat == StatOf(nft, ta, type)
                                d    == rare.rarity[type]
                            IN  /\ d.value = CountedUnder(nft, type)
                                /\ d.count = stat.count
                                /\ d.percentage = stat.percentage
                                /\ d.rare <=> RuleRare(stat)
                                /\ (config.oneOfOneThreshold /\ stat.count = Number(1)) =>
                                      d.reason = "One of one trait"
                                /\ (d.rare /\ ~(config.oneOfOneThreshold
                                                   /\ stat.count = Number(1)))
                                      => d.reason = "Below threshold"

\* C18: classifying the same array against the same counts a second time
\* returns the same items in the same order with the same rarity details,
\* and leaves the array as the first classification left it.
C18_ClassifyIdempotent ==
    (analysis.called /\ analysis.times = 2) =>
        /\ analysis.again = analysis.rareNFTs
        /\ analysis.after = Classified(analysis.nfts, analysis.traitAnalysis)

\* A list with a rare and a non-rare item has been classified twice.
C18_Witness ==
    /\ analysis.called
    /\ analysis.times = 2
    /\ Len(analysis.again) > 0
    /\ Len(analysis.again) < Len(analysis.nfts)

\* The sum of f over the set S.
RECURSIVE SumOver(_, _)
SumOver(f, S) ==
    IF S = {} THEN 0
    ELSE LET x == CHOOSE y \in S : TRUE IN f[x] + SumOver(f, S \ {x})

\* C28: for a non-empty list of items, countTraits covers every trait type
\* seen on any item; under each type every item is counted once, under its
\* value or under "None", so the counts of the type are numbers that sum to
\* the number of items and its percentages sum to 100 within half a
\* hundredth per value; the counts are those of the collection in whatever
\* order its items come; and the items classified are classified against
\* these counts, which are taken over the collection and not over the listed
\* items.
C28_TraitStatsAreTotals ==
    (analysis.called /\ analysis.collection # <<>>) =>
        LET items == analysis.collection
            ta    == analysis.traitAnalysis
        IN  /\ ta.traitTypes = UNION {DOMAIN items[i].traits : i \in DOMAIN items}
            /\ DOMAIN ta.traitCounts = ta.traitTypes
            /\ \A type \in ta.traitTypes :
                   LET stats == ta.traitCounts[type]
                   IN  /\ \A i \in DOMAIN items :
                              CountedUnder(items[i], type) \in DOMAIN stats
                       /\ \A v \in DOMAIN stats :
                              /\ stats[v].count =
                                    Number(Cardinality({i \in DOMAIN items :
                                                    CountedUnder(items[i], type) = v}))
                              /\ stats[v].count.n >= 1
                              /\ stats[v].percentage.kind = "number"
                       /\ SumOver([v \in DOMAIN stats |-> stats[v].count.n],
                                  DOMAIN stats) = Len(items)
                       /\ 2 * SumOver([v \in DOMAIN stats |-> stats[v].percentage.n],
                                      DOMAIN stats) - 2 * 10000
                              \in (0 - Cardinality(DOMAIN stats))
                                     ..Cardinality(DOMAIN stats)
            /\ \A p \in Permutations(DOMAIN items) :
                   countTraits([k \in DOMAIN items |-> items[p[k]]]) = ta
            /\ analysis.rareNFTs = findRareNFTs(analysis.nfts, ta)

\* The trait types of the counts for which the item's value, or "None", is
\* no value of the collection.
UnknownTypes(nft, ta) ==
    {type \in ta.traitTypes : CountedUnder(nft, type) \notin DOMAIN ta.traitCounts[type]}

\* Has the item a trait whose value is known to the counts and rare by them.
HasRareTrait(nft, ta) ==
    \E type \in ta.traitTypes \ UnknownTypes(nft, ta) :
        RuleRare(ta.traitCounts[type][CountedUnder(nft, type)])

\* C30: a trait type for which the item's value (or "None") is no value of
\* the collection gets no entry in the item's rarity details and does not
\* make the item rare: a returned item has a rare trait among the types with
\* a known value, and an item without one, all of its values unknown or
\* common, is not returned and keeps the rarity it came with.
C30_UnknownValuesNeverRare ==
    analysis.called =>
        LET ta == analysis.traitAnalysis
        IN  /\ \A k \in DOMAIN analysis.rareNFTs :
                  LET r == analysis.rareNFTs[k]
                  IN  /\ DOMAIN r.rarity \cap UnknownTypes(r, ta) = {}
                      /\ \E type \in DOMAIN r.rarity : r.rarity[type].rare
                      /\ HasRareTrait(r, ta)
            /\ \A i \in DOMAIN analysis.nfts :
                  LET nft == analysis.nfts[i]
                  IN  /\ DOMAIN analysis.after[i].rarity \cap UnknownTypes(nft, ta) = {}
                      /\ ~HasRareTrait(nft, ta) =>
                            /\ analysis.after[i].rarity = EmptyMap
                            /\ \A k \in DOMAIN analysis.rareNFTs :
                                  analysis.rareNFTs[k].mintAddress # nft.mintAddress

(***************************************************************************)
(* Properties of the cache store, checked under SpecCache.                 *)
(***************************************************************************)
\* The snapshot file as loadFromCache finds it: parsable, and not older than
\* the expiry.
Fresh == now - cacheFile.mtime <= config.cacheExpireHours * HourMs

\* C12: with caching enabled, a call of loadFromCache returns the persisted
\* snapshot if and only if the file exists, can be read and parsed, and its
\* age is at most cacheExpireHours; so a snapshot is returned one millisecond
\* before its expiry and at it, and reported absent one millisecond after;
\* the call leaves the file as it is, expired or not.
C12_SnapshotExpiry ==
    [][(cacheCall'.op = "loadFromCache" /\ config.cacheFullCollectionData) =>
          /\ cacheCall'.value # Null <=>
                (cacheFile.state = "ok" /\ cacheCall'.io = "ok" /\ Fresh)
          /\ cacheCall'.value # Null => cacheCall'.value = ArrayOf(cacheFile.data)
          /\ (cacheFile.state = "ok" /\ cacheCall'.io = "ok") =>
                /\ now - cacheFile.mtime = ExpiryMs - 1 => cacheCall'.value # Null
                /\ now - cacheFile.mtime = ExpiryMs + 1 => cacheCall'.value = Null
          /\ cacheFile' = cacheFile]_vars

\* A snapshot that saveToCache wrote after the start has been read without
\* failure one millisecond past its expiry: it is reported absent and the
\* file is still there.
C12_Witness ==
    /\ cacheCall.op = "loadFromCache"
    /\ cacheCall.io = "ok"
    /\ cacheCall.value = Null
    /\ config.cacheFullCollectionData
    /\ cacheFile.state = "ok"
    /\ cacheFile.mtime > 0
    /\ now - cacheFile.mtime = ExpiryMs + 1

\* C14: clearCache changes nothing but the snapshot file: the seen-set file
\* and the in-memory seen set stay as they are, and the snapshot file is
\* removed or left as it was; when both of its file system calls succeed the
\* file is gone and it reports success, when it reports failure the file is
\* as before; and with no snapshot file it changes nothing and reports
\* success, whatever its file system calls do.
C14_ClearCacheFrame ==
    [][cacheCall'.op = "clearCache" =>
          /\ seenFile' = seenFile
          /\ seenRareNFTs' = seenRareNFTs
          /\ cacheFile' \in {cacheFile, NoCacheFile}
          /\ cacheCall'.io = "ok" => (cacheCall'.ok /\ cacheFile' = NoCacheFile)
          /\ ~cacheCall'.ok => cacheFile' = cacheFile
          /\ cacheFile.state = "missing" => (cacheCall'.ok /\ cacheFile' = cacheFile)]_vars

\* clearCache has removed a snapshot (time has passed, which takes a snapshot
\* file) and the seen-set file still holds its set.
C14_Witness ==
    /\ cacheCall.op = "clearCache"
    /\ cacheCall.io = "ok"
    /\ cacheCall.ok
    /\ cacheFile = NoCacheFile
    /\ now > 0
    /\ seenFile.state = "ok"
    /\ seenFile.content # {}

\* C15: every operation of the cache store answers a failure of its file
\* system calls, or a file that does not parse, with its failure value:
\* cacheExists with false, loadFromCache with null, saveToCache and
\* saveSeenRareNFTs with false, loadSeenRareNFTs with the empty Set, and
\* clearCache, called with a snapshot file in place, with false and the file
\* as it was.
C15_CacheFailuresAreValues ==
    [][/\ (cacheCall'.op = "cacheExists" /\ cacheCall'.io # "ok") => ~cacheCall'.ok
       /\ (cacheCall'.op = "loadFromCache"
              /\ (cacheCall'.io # "ok" \/ cacheFile.state = "malformed")) =>
             cacheCall'.value = Null
       /\ (cacheCall'.op = "saveToCache" /\ cacheCall'.io # "ok") => ~cacheCall'.ok
       /\ (cacheCall'.op = "loadSeenRareNFTs"
              /\ (cacheCall'.io # "ok" \/ seenFile.state = "malformed")) =>
             cacheCall'.value = SetOf({})
       /\ (cacheCall'.op = "saveSeenRareNFTs" /\ cacheCall'.io # "ok") => ~cacheCall'.ok
       /\ (cacheCall'.op = "clearCache" /\ cacheCall'.io # "ok"
              /\ cacheFile.state # "missing") =>
             (~cacheCall'.ok /\ cacheFile' = cacheFile)]_vars

\* C16 as stated: loadSeenRareNFTs returns the persisted set whenever the
\* file exists and is well-formed, and the empty set when the file is missing
\* or malformed; it never modifies the file.
C16_Original ==
    [][cacheCall'.op = "loadSeenRareNFTs" =>
          /\ seenFile.state = "ok" => cacheCall'.value = SetOf(seenFile.content)
          /\ seenFile.state # "ok" => cacheCall'.value = SetOf({})
          /\ seenFile' = seenFile]_vars

\* C16 amended: loadSeenRareNFTs returns the persisted set when the file
\* exists, is read without failure and is well-formed, and the empty set when
\* the file is missing, cannot be read or is malformed; it always returns a
\* Set and never modifies the file.
C16_LoadSeenSet ==
    [][cacheCall'.op = "loadSeenRareNFTs" =>
          /\ cacheCall'.value.kind = "set"
          /\ (seenFile.state = "ok" /\ cacheCall'.io = "ok") =>
                cacheCall'.value = SetOf(seenFile.content)
          /\ (seenFile.state # "ok" \/ cacheCall'.io = "fail") =>
                cacheCall'.value = SetOf({})
          /\ seenFile' = seenFile]_vars

\* A malformed seen-set file has been loaded as the empty set, and is still
\* there.
C16_Witness ==
    /\ cacheCall.op = "loadSeenRareNFTs"
    /\ cacheCall.value = SetOf({})
    /\ seenFile.state = "malformed"

(***************************************************************************)
(* Properties of termination and of the cycle's outcome, checked under     *)
(* Spec.                                                                   *)
(***************************************************************************)
\* A cycle in scans is suspended at the await of a remote call: its pc names
\* the call (info, enumerate, listings, meta, sink).
CallInFlight == scans # <<>>

\* C22: a SIGINT that arrives while a remote call of the running cycle is in
\* flight does not cut the call: the process exits only in a state where no
\* call of a cycle is in flight.
C22_ExitAfterCall ==
    [][(phase = "running" /\ phase' = "stopped") => ~CallInFlight]_vars

\* C23: every mint that enters the seen set of a running process enters it in
\* the step that calls the sink, and is among the items of that call; so at
\* a SIGINT that arrives while the sink call is pending, and whose handler
\* writes the seen set to the file, each mint added in the run has been
\* handed to the sink at least once.
C23_AtLeastOncePerSeenMint ==
    /\ [][(phase = "running" /\ phase' = "running") =>
             \A m \in seenRareNFTs' \ seenRareNFTs :
                 /\ dedup'.sink
                 /\ m \in MintsOf(dedup'.items)
                 /\ notifiedRun'[m] >= 1]_vars
    /\ [][(phase = "running" /\ phase' = "stopped" /\ cacheCall'.ok
             /\ Len(scans) = 1 /\ scans[1].pc = "sink") =>
             /\ seenFile'.content = seenRareNFTs
             /\ \A m \in MintsOf(scans[1].newRareNFTs) :
                   m \in seenFile'.content /\ notifiedRun[m] >= 1]_vars

\* Two mints entered the seen set in one step and the sink call that holds
\* both is pending: a SIGINT can arrive now.
C23_Witness ==
    /\ phase = "running"
    /\ Len(scans) = 1 /\ scans[1].pc = "sink"
    /\ dedup.sink
    /\ dedup.seenBefore = {}
    /\ seenRareNFTs = {"m1", "m2"}
    /\ MintsOf(dedup.items) = {"m1", "m2"}
    /\ ENABLED Sigint("ok")

\* The step ends a cycle by one of the three early returns of
\* processCollection (index.js:27-30, 53-56, 73-76).
AbortStep ==
    /\ phase = "running" /\ phase' = "running"
    /\ Len(scans) = 1 /\ scans' = <<>>
    /\ lastOutcome' = "abort"

\* C24: a cycle aborts when the collection's metadata is absent, when the
\* full collection is empty and when the listings are empty, so a cycle past
\* these tests holds a non-empty collection and non-empty listings; the
\* aborting step and every step of a cycle before classification leave the
\* seen set and its file alone and call no sink; a cycle that aborts for
\* absent metadata ends at its first step, before any cache read and before
\* the enumeration, listings and token requests.
C24_AbortedCycleFrame ==
    /\ [](\A i \in DOMAIN scans :
             /\ scans[i].pc \in {"listings", "meta", "sink"} => scans[i].allNFTs # <<>>
             /\ scans[i].pc \in {"meta", "sink"} => scans[i].listedNFTs # <<>>)
    /\ [][AbortStep =>
             /\ scans[1].pc \in {"info", "enumerate", "listings"}
             /\ ~isScanRunning']_vars
    /\ [][(phase = "running" /\ phase' = "running" /\ Len(scans) = 1
             /\ scans[1].pc \in {"info", "enumerate", "listings"}) =>
             /\ seenRareNFTs' = seenRareNFTs
             /\ seenFile' = seenFile
             /\ notifiedRun' = notifiedRun /\ notifiedAll' = notifiedAll
             /\ ~dedup'.reached /\ ~dedup'.sink
             /\ \A i \in DOMAIN scans' : scans'[i].pc # "sink"]_vars
    /\ [][(AbortStep /\ scans[1].pc = "info") =>
             /\ cacheCall'.op = "none"
             /\ cacheFile' = cacheFile]_vars

\* A process whose seen set and seen-set file hold a mint has had a cycle
\* abort: both are as they were.
C24_Witness ==
    /\ phase = "running"
    /\ scans = <<>>
    /\ lastOutcome = "abort"
    /\ seenRareNFTs = {"m1"}
    /\ seenFile.state = "ok" /\ seenFile.content = {"m1"}
    /\ dedup = NoDedup

\* The snapshot file parses, has not expired and holds at least one record.
SnapshotValid ==
    /\ cacheFile.state = "ok"
    /\ now - cacheFile.mtime <= config.cacheExpireHours * HourMs
    /\ cacheFile.data # <<>>

\* The step resumes the cycle at the return of getCollectionInfo with the
\* collection's metadata, or at the return of getAllCollectionNFTs.
InfoStep ==
    /\ phase = "running" /\ phase' = "running"
    /\ Len(scans) = 1 /\ scans[1].pc = "info"
    /\ scans' # scans
    /\ ~(scans' = <<>> /\ lastOutcome' = "abort")
EnumerateStep ==
    /\ phase = "running" /\ phase' = "running"
    /\ Len(scans) = 1 /\ scans[1].pc = "enumerate"
    /\ scans' # scans
EmptyEnumeration == scans' = <<>> /\ lastOutcome' = "abort"

\* The cycle goes on with the snapshot's records as the full collection, or
\* ends on a record of the snapshot that cannot be normalized; it does not
\* enumerate.
ReusesSnapshot ==
    /\ cacheCall'.value # Null /\ cacheCall'.value.items = cacheFile.data
    /\ \/ scans' = <<>> /\ lastOutcome' = "error" /\ Throws(cacheFile.data)
       \/ /\ Len(scans') = 1 /\ scans'[1].pc = "listings"
          /\ scans'[1].allNFTs = cacheFile.data
          /\ scans'[1].traitAnalysis = countTraits(NormalizeAll(cacheFile.data))

\* The enumeration is issued once: a cycle enters it from its first step
\* only and leaves it at its return.
EnumeratesOnce ==
    /\ [][\A i \in DOMAIN scans' :
             (scans'[i].pc = "enumerate" /\ scans' # scans) =>
                 (Len(scans) = 1 /\ scans[1].pc = "info")]_vars
    /\ [][EnumerateStep => \A i \in DOMAIN scans' : scans'[i].pc = "listings"]_vars

\* The snapshot file now holds the enumeration's records and nothing else.
Replaced ==
    /\ cacheFile'.state = "ok" /\ cacheFile'.mtime = now
    /\ cacheFile'.data # <<>>
    /\ scans' # <<>> => cacheFile'.data = scans'[1].allNFTs

\* C25 as stated: a valid non-empty snapshot is used as the full collection
\* and nothing is enumerated; on a miss the enumeration is run once, and its
\* result replaces the snapshot file if and only if it is non-empty.
C25_Original ==
    /\ [][InfoStep => IF SnapshotValid /\ cacheCall'.io = "ok"
                         THEN ReusesSnapshot
                         ELSE Len(scans') = 1 /\ scans'[1].pc = "enumerate"]_vars
    /\ EnumeratesOnce
    /\ [][EnumerateStep => IF EmptyEnumeration THEN cacheFile' = cacheFile
                                               ELSE Replaced]_vars

\* C25 amended: with caching enabled, a valid non-empty snapshot that can be
\* read is used as the full collection and nothing is enumerated; on a miss
\* (caching disabled, the file absent, expired, unreadable or empty) the
\* enumeration is run once; a non-empty result is handed to saveToCache and
\* replaces the snapshot file when caching is enabled and the write succeeds
\* (with caching disabled the file stays as it was, after a failed write it
\* is as it was or truncated); an empty result leaves the file as it was.
C25_SnapshotReuseAndRefresh ==
    /\ [][InfoStep =>
             /\ cacheCall'.op = "loadFromCache"
             /\ cacheFile' = cacheFile
             /\ IF config.cacheFullCollectionData /\ SnapshotValid
                      /\ cacheCall'.io = "ok"
                   THEN ReusesSnapshot
                   ELSE Len(scans') = 1 /\ scans'[1].pc = "enumerate"]_vars
    /\ EnumeratesOnce
    /\ [][EnumerateStep =>
             IF EmptyEnumeration
                THEN cacheFile' = cacheFile /\ cacheCall'.op = "none"
                ELSE /\ cacheCall'.op = "saveToCache"
                     /\ cacheCall'.ok <=>
                           (config.cacheFullCollectionData /\ cacheCall'.io = "ok")
                     /\ cacheCall'.ok => Replaced
                     /\ ~config.cacheFullCollectionData => cacheFile' = cacheFile
                     /\ ~cacheCall'.ok =>
                           \/ cacheFile' = cacheFile
                           \/ /\ cacheCall'.io = "failTruncated"
                              /\ cacheFile'.state = "malformed"]_vars

\* A cycle met a snapshot that had expired, enumerated, and has replaced the
\* two records of the snapshot by the one record the enumeration returned.
C25_Witness ==
    /\ phase = "running"
    /\ Len(scans) = 1 /\ scans[1].pc = "listings"
    /\ cacheCall.op = "saveToCache" /\ cacheCall.ok
    /\ now > 0
    /\ cacheFile = [state |-> "ok", data |-> <<TokenRecord("m1")>>, mtime |-> now]
    /\ scans[1].allNFTs = cacheFile.data

\* The step resumes the cycle at the return of getNFTMetadata for the
\* listing at idx.
MetaStep ==
    /\ phase = "running" /\ phase' = "running"
    /\ Len(scans) = 1 /\ scans[1].pc = "meta"
    /\ scans' # scans

\* The listed items are as they were (the listing is skipped) or have grown
\* by the listing's item, which carries the listing's price and seller.
SkippedOrKept(old, new, listing) ==
    \/ new = old
    \/ /\ Len(new) = Len(old) + 1
       /\ SubSeq(new, 1, Len(old)) = old
       /\ new[Len(new)].mintAddress = listing.tokenMint
       /\ new[Len(new)].price = listing.price
       /\ new[Len(new)].seller = listing.seller

\* C26: whatever getNFTMetadata returns for a listing, absent or a record that
\* cannot be normalized, the cycle does not fail: the listing is skipped or
\* kept with its own price and seller, the metadata of the next listing is
\* fetched, and after the last listing the listed items are classified.
C26_SkipNotFatal ==
    [][MetaStep =>
          LET sc == scans[1]
          IN  /\ ~(scans' = <<>> /\ lastOutcome' = "error")
              /\ sc.idx < Len(sc.listedNFTs) =>
                    /\ Len(scans') = 1 /\ scans'[1].pc = "meta"
                    /\ scans'[1].idx = sc.idx + 1
                    /\ SkippedOrKept(sc.normalizedListedNFTs,
                                     scans'[1].normalizedListedNFTs,
                                     sc.listedNFTs[sc.idx])
              /\ sc.idx = Len(sc.listedNFTs) => dedup'.reached]_vars

\* C29: over all runs of the process, a write of the seen-set file that
\* succeeds stores every mint the file held before it, whatever the reads and
\* writes before it did, a failed read at start-up included.
C29_PersistedSeenSetGrows ==
    [][(cacheCall'.op = "saveSeenRareNFTs" /\ cacheCall'.ok) =>
           seenFile.content \subseteq seenFile'.content]_vars

(***************************************************************************)
(* Properties of the interval timer, checked under SpecTimer.              *)
(***************************************************************************)
\* C21: a scan that starts after a scan has completed starts no earlier than
\* scanIntervalMinutes after that completion, however long the scans take.
C21_IntervalAfterCompletion ==
    [][(scans = <<>> /\ scans' # <<>> /\ timer.completed # NoTime) =>
           now - timer.completed >= IntervalMs]_vars

=============================================================================
